---- MODULE Spec2Model ----
(***************************************************************************)
(* The relay hub of weekend-chart: the connection registry, the routing    *)
(* core, the screenshot cache and the synchronous screenshot request, as   *)
(* implemented by relay.Hub (src/server/models/db.go, lines 237-554) and   *)
(* driven by the WebSocket handlers (src/server/handlers/websocket.go).    *)
(*                                                                         *)
(* Every region the code runs under h.mu is one atomic step.  A goroutine  *)
(* that runs several such regions, or that sends on a channel outside the  *)
(* lock, is a process whose position is kept in agentPump / userPump /     *)
(* sync.  Go channel semantics are kept: a send on a full channel without  *)
(* select/default suspends the sender, a send on a closed channel and a    *)
(* second close are process-fatal panics.                                  *)
(*                                                                         *)
(* The chat orchestration loop (handleChatMessage, websocket.go lines      *)
(* 488-628) is one more such process, kept in chat, with the conversation  *)
(* it adds to kept in conv.                                                *)
(***************************************************************************)
EXTENDS Integers, Sequences, FiniteSets, TLC

\* ------------------------------------------------------------------ bounds
\* Number of messages a conversation is let grow to.
MaxHist == 4
\* Number of agent WebSocket connections ever accepted.
MaxAgentConns == 2
\* Number of user WebSocket connections ever accepted.
MaxUserConns == 2
\* Capacity of every outbound queue; stands for make(chan []byte, 256).
QueueCap == 1
\* Last reading of the clock (seconds).
MaxTime == 4
\* Number of messages read from an agent's transport while it is recorded.
MaxSent == 3

\* Number of LLM responses with tool calls that one chat message is given.
MaxToolRounds == 1
\* Lifetime of a pairing code in seconds; stands for 5 * time.Minute.
PairingCodeLife == 2

\* -------------------------------------------------------- program constants
\* time.Since(updatedAt) < 3*time.Second
FreshSeconds == 3
\* maxIterations := 10
MaxIterations == 10
\* conv.TrimToLastN(20)
TrimTarget == 20

\* A token is a string, kept as its sequence of characters so that the request
\* id "token:timestamp" and its prefix test are computed as the code does.
Tokens == {<<"a">>, <<"a", ":", "b">>}
UserIDs == {1, 2}
Payloads == {"P1", "P2"}
Codes == {"111111"}
Timeouts == {1, 2}

AConns == 1..MaxAgentConns
UConns == 1..MaxUserConns
\* The goroutines that call RequestScreenshotSync (chat loops).
Syncs == {"g1", "g2"}

NoConn == 0
NoUser == 0
NoToken == <<>>
NoCache == [Data |-> "", UpdatedAt |-> -1]
NoMsg == <<>>
NoRequests == [r \in {} |-> 0]
\* The transports, when they are not being recorded: sent is what
\* agentReadPump read from the agent's transport, wire the agent messages that
\* userWritePump wrote to the user's transport, call the last call of
\* TrimToLastN or ValidateAndClean with its argument and its result.
NoTrace == [on |-> FALSE, sent |-> <<>>, wire |-> <<>>, call |-> <<>>]

VARIABLES
    agents,              \* Hub.agents: token -> agent connection (NoConn: no key)
    users,               \* Hub.users: user id -> set of user connections
    userViewingAgent,    \* Hub.userViewingAgent: user id -> token (NoToken: no key)
    screenshotCache,     \* Hub.screenshotCache: token -> ScreenshotCache
    screenshotRequests,  \* Hub.screenshotRequests: request id -> response channel
    agentConn,           \* the AgentConn objects
    userConn,            \* the UserConn objects
    agentPump,           \* agentReadPump / agentWritePump of each connection
    userPump,            \* userReadPump / userWritePump of each connection
    dbAgents,            \* table agents: agent_token -> user_id (NoUser: no row)
    pairingCodes,        \* table pairing_codes: code -> agent_token
    now,                 \* time.Now(), in seconds
    sync,                \* the running RequestScreenshotSync calls
    respChan,            \* respChan of each call: a channel of capacity 1
    panicked,            \* "no", or the runtime panic that ended the process
    trace,               \* what was read from an agent's and written to a user's transport
    chat,                \* the running handleChatMessage goroutine
    conv,                \* the Conversation of the user and the agent
    mgr,                 \* ConversationManager.conversations: id -> *Conversation
    convs,               \* the Conversation objects the pointers point at
    loops,               \* handleChatMessage goroutines running side by side
    codeExpires,         \* table pairing_codes: code -> expires_at (0: no row)
    pair                 \* the running HandlePair request

vars == <<agents, users, userViewingAgent, screenshotCache, screenshotRequests,
          agentConn, userConn, agentPump, userPump, dbAgents, pairingCodes,
          now, sync, respChan, panicked, trace, chat, conv, mgr, convs, loops,
          codeExpires, pair>>

loopVars == <<mgr, convs, loops, pair>>
chatVars == <<chat, conv, loopVars>>
hubUserVars == <<users, userViewingAgent, userConn, userPump>>
cacheVars == <<screenshotCache, screenshotRequests, respChan>>
dbVars == <<dbAgents, pairingCodes, codeExpires>>

\* --------------------------------------------------------------- messages
Msg(type, arg) == <<type, arg>>

\* --------------------------------------------------------------- channels
\* close(ch): a second close panics.
CloseAgentSend(c) ==
    IF agentConn[c].closed
    THEN /\ panicked' = "close of closed channel"
         /\ UNCHANGED agentConn
    ELSE /\ agentConn' = [agentConn EXCEPT ![c].closed = TRUE]
         /\ UNCHANGED panicked

CloseUserSend(h) ==
    IF userConn[h].closed
    THEN /\ panicked' = "close of closed channel"
         /\ UNCHANGED userConn
    ELSE /\ userConn' = [userConn EXCEPT ![h].closed = TRUE]
         /\ UNCHANGED panicked

\* select { case ch <- msg: ...; default: ... } on a channel: the value is
\* queued when there is room; a closed channel panics.
CanEnqueue(ch) == Len(ch.Send) < QueueCap

\* ------------------------------------------------------------ Hub methods
FreeAgentConn == [Token |-> NoToken, UserID |-> NoUser, Send |-> <<>>, closed |-> FALSE]
FreeUserConn == [UserID |-> NoUser, Send |-> <<>>, closed |-> FALSE]
FreeAgentPump == [rd |-> "none", wr |-> "none", img |-> ""]
\* fwd: what handleUserMessage logged for the latest forwarded command.
FreeUserPump == [rd |-> "none", wr |-> "none", tok |-> NoToken, out |-> NoMsg, fwd |-> ""]
\* A call's locals; one that is out of use holds its zero value.
\* A tool call of an LLM response; valid: json.Unmarshal of its Input succeeds.
ToolCall(id, name, valid) == [ID |-> id, Name |-> name, valid |-> valid]
\* ToolResult; Content is kept as "" (default) or "text".
ToolResult(id, content, isError) == [ToolUseID |-> id, Content |-> content, IsError |-> isError]
\* The tool-call lists the LLM answers with: none; a click whose arguments do
\* not parse followed by one whose arguments do; a tool that does not exist;
\* take_screenshot.
ToolLists ==
    { <<>>,
      <<ToolCall("t1", "click", FALSE), ToolCall("t2", "click", TRUE)>>,
      <<ToolCall("t1", "fly", TRUE)>>,
      <<ToolCall("t1", "take_screenshot", TRUE)>> }
\* client.Chat's results: an error, or a ChatResponse.
ChatError == [err |-> TRUE, TextContent |-> "", ToolCalls |-> <<>>]
NoResp == [err |-> FALSE, TextContent |-> "", ToolCalls |-> <<>>]
Responses ==
    {ChatError} \cup
    {[err |-> FALSE, TextContent |-> t, ToolCalls |-> l] : t \in {"", "T"}, l \in ToolLists}
\* A text is kept as its sequence of characters, so that the comparison without
\* regard to case is computed.  keyNames is the map of the type_text case.
keyNames ==
    { <<"T", "a", "b">>,
      <<"t", "a", "b">>,
      <<"T", "A", "B">>,
      <<"E", "n", "t", "e", "r">>,
      <<"e", "n", "t", "e", "r">>,
      <<"E", "N", "T", "E", "R">>,
      <<"B", "a", "c", "k", "s", "p", "a", "c", "e">>,
      <<"b", "a", "c", "k", "s", "p", "a", "c", "e">>,
      <<"B", "A", "C", "K", "S", "P", "A", "C", "E">>,
      <<"E", "s", "c", "a", "p", "e">>,
      <<"e", "s", "c", "a", "p", "e">>,
      <<"E", "S", "C">>,
      <<"e", "s", "c">>,
      <<"D", "e", "l", "e", "t", "e">>,
      <<"d", "e", "l", "e", "t", "e">>,
      <<"D", "E", "L">>,
      <<"d", "e", "l">>,
      <<"A", "r", "r", "o", "w", "U", "p">>,
      <<"A", "r", "r", "o", "w", "D", "o", "w", "n">>,
      <<"A", "r", "r", "o", "w", "L", "e", "f", "t">>,
      <<"A", "r", "r", "o", "w", "R", "i", "g", "h", "t">> }
\* strings.ToLower, on the letters in use.
LowerOf ==
    "A" :> "a" @@ "B" :> "b" @@ "C" :> "c" @@ "D" :> "d" @@ "E" :> "e" @@ "K" :> "k" @@
    "L" :> "l" @@ "N" :> "n" @@ "P" :> "p" @@ "R" :> "r" @@ "S" :> "s" @@ "T" :> "t" @@ "U" :> "u"
ToLower(s) == [n \in 1..Len(s) |-> IF s[n] \in DOMAIN LowerOf THEN LowerOf[s[n]] ELSE s[n]]
\* ToolCall of type_text with the text of its input.
TypeText(id, text) == [ID |-> id, Name |-> "type_text", valid |-> TRUE, Text |-> text]

\* handleChatMessage's locals; out of use they hold their zero value.  calls
\* counts the client.Chat calls made; messages is the list given to client.Chat;
\* out/then are the chat_response being
\* sent and where the goroutine goes on after the send; at is the place
\* RequestScreenshotSync was called from.
IdleChat == [pc |-> "idle", uc |-> NoConn, agentToken |-> NoToken, i |-> 0, calls |-> 0,
             screenshot |-> "", resp |-> NoResp, k |-> 0, results |-> <<>>,
             newScreenshot |-> "", screenshotForClaude |-> "",
             out |-> NoMsg, then |-> "", at |-> "", messages |-> <<>>]
IdleSync == [pc |-> "idle", token |-> NoToken, timeout |-> 0, reqID |-> <<>>,
             deadline |-> 0, data |-> "", err |-> ""]

NewAgentConn(token) ==
    [Token |-> token, UserID |-> dbAgents[token], Send |-> <<>>, closed |-> FALSE]

\* RegisterAgent, had it kept a live registration instead of replacing it.
RegisterAgent_KeepsFirst(token, c) ==
    /\ agentConn' = [agentConn EXCEPT ![c] = NewAgentConn(token)]
    /\ agents' = IF agents[token] = NoConn
                 THEN [agents EXCEPT ![token] = c]
                 ELSE agents

RegisterAgent(token, c) ==
    /\ agentConn' = [agentConn EXCEPT ![c] = NewAgentConn(token)]
    /\ agents' = [agents EXCEPT ![token] = c]

\* UnregisterAgent, had it closed the queue and left the map entry.
UnregisterAgent_KeepsEntry(token) ==
    IF agents[token] # NoConn
    THEN /\ CloseAgentSend(agents[token])
         /\ UNCHANGED agents
    ELSE UNCHANGED <<agents, agentConn, panicked>>

\* UnregisterAgent, had it closed the newest connection of the token without
\* looking the token up in the map.
UnregisterAgent_NoLookup(token) ==
    LET mine == {c \in AConns : agentConn[c].Token = token}
        newest == CHOOSE c \in mine : \A d \in mine : d <= c
    IN  /\ CloseAgentSend(newest)
        /\ agents' = [agents EXCEPT ![token] = NoConn]

UnregisterAgent(token) ==
    IF agents[token] # NoConn
    THEN /\ CloseAgentSend(agents[token])
         /\ agents' = [agents EXCEPT ![token] = NoConn]
    ELSE UNCHANGED <<agents, agentConn, panicked>>

IsAgentOnline(token) == agents[token] # NoConn

RegisterUser(userID, h) ==
    /\ userConn' = [userConn EXCEPT ![h] = [UserID |-> userID, Send |-> <<>>, closed |-> FALSE]]
    /\ users' = [users EXCEPT ![userID] = @ \cup {h}]

\* UnregisterUser, had it cleared the viewing assignment on every disconnect.
UnregisterUser_ClearsViewing(h) ==
    LET uid == userConn[h].UserID IN
    IF h \in users[uid]
    THEN /\ CloseUserSend(h)
         /\ users' = [users EXCEPT ![uid] = @ \ {h}]
         /\ userViewingAgent' = [userViewingAgent EXCEPT ![uid] = NoToken]
    ELSE UNCHANGED <<users, userViewingAgent, userConn, panicked>>

UnregisterUser(h) ==
    LET uid == userConn[h].UserID IN
    IF h \in users[uid]
    THEN /\ CloseUserSend(h)
         /\ users' = [users EXCEPT ![uid] = @ \ {h}]
         /\ userViewingAgent' =
                IF users[uid] = {h}
                THEN [userViewingAgent EXCEPT ![uid] = NoToken]
                ELSE userViewingAgent
    ELSE UNCHANGED <<users, userViewingAgent, userConn, panicked>>

\* SetUserViewingAgent, had it kept an assignment that is already there.
SetUserViewingAgent_KeepsFirst(userID, agentToken) ==
    userViewingAgent' = IF userViewingAgent[userID] = NoToken
                        THEN [userViewingAgent EXCEPT ![userID] = agentToken]
                        ELSE userViewingAgent

SetUserViewingAgent(userID, agentToken) ==
    userViewingAgent' = [userViewingAgent EXCEPT ![userID] = agentToken]

GetUserViewingAgent(userID) == userViewingAgent[userID]

\* SendToAgent's result, had the lookup of the token been left out of it.
SendToAgentOK_NoLookup(agentToken) ==
    \/ agents[agentToken] = NoConn
    \/ CanEnqueue(agentConn[agents[agentToken]])

\* The value SendToAgent returns: the agent is registered and the select took
\* the send case.
SendToAgentOK(agentToken) ==
    /\ agents[agentToken] # NoConn
    /\ CanEnqueue(agentConn[agents[agentToken]])

\* SendToAgent, had it sent to the newest connection of the token whether or
\* not the token is registered.
SendToAgent_NoLookup(agentToken, msg) ==
    LET mine == {c \in AConns : agentConn[c].Token = agentToken /\ ~agentConn[c].closed} IN
    /\ agentConn' = IF mine # {}
                    THEN LET c == CHOOSE c \in mine : \A d \in mine : d <= c
                         IN  [agentConn EXCEPT ![c].Send = Append(@, msg)]
                    ELSE agentConn
    /\ UNCHANGED panicked

SendToAgent(agentToken, msg) ==
    LET c == agents[agentToken] IN
    IF c # NoConn /\ agentConn[c].closed
    THEN /\ panicked' = "send on closed channel"
         /\ UNCHANGED agentConn
    ELSE /\ agentConn' = IF c # NoConn /\ SendToAgentOK(agentToken)
                         THEN [agentConn EXCEPT ![c].Send = Append(@, msg)]
                         ELSE agentConn
         /\ UNCHANGED panicked

\* BroadcastToAgentUsers' recipients, had the viewing assignment been left
\* out of the test.
BroadcastTargets_AnyViewing(agentToken) ==
    LET c == agents[agentToken] IN
    IF c # NoConn /\ agentConn[c].UserID > 0
    THEN users[agentConn[c].UserID]
    ELSE {}

\* The connections BroadcastToAgentUsers ranges over: those of the owner of
\* the agent connection, when that user is viewing this agent.
BroadcastTargets(agentToken) ==
    LET c == agents[agentToken] IN
    IF /\ c # NoConn
       /\ agentConn[c].UserID > 0
       /\ userViewingAgent[agentConn[c].UserID] = agentToken
    THEN users[agentConn[c].UserID]
    ELSE {}

\* The loop over the connections, had it stopped after the first one.
EnqueueAll_FirstOnly(targets, msg) ==
    /\ userConn' = [h \in UConns |->
            IF h \in targets /\ (\A g \in targets : h <= g) /\ CanEnqueue(userConn[h])
            THEN [userConn[h] EXCEPT !.Send = Append(@, msg)]
            ELSE userConn[h]]
    /\ UNCHANGED panicked

\* for uc := range conns { select { case uc.Send <- msg: default: } }
EnqueueAll(targets, msg) ==
    IF \E h \in targets : userConn[h].closed
    THEN /\ panicked' = "send on closed channel"
         /\ UNCHANGED userConn
    ELSE /\ userConn' = [h \in UConns |->
                IF h \in targets /\ CanEnqueue(userConn[h])
                THEN [userConn[h] EXCEPT !.Send = Append(@, msg)]
                ELSE userConn[h]]
         /\ UNCHANGED panicked

SendToUser(userID, msg) == EnqueueAll(users[userID], msg)

BroadcastToAgentUsers(agentToken, msg) == EnqueueAll(BroadcastTargets(agentToken), msg)

\* ------------------------------------------------------- screenshot cache
\* reqID[:len(prefix)] == prefix
HasPrefix(reqID, prefix) ==
    /\ Len(reqID) >= Len(prefix)
    /\ SubSeq(reqID, 1, Len(prefix)) = prefix

\* The pending requests UpdateScreenshotCache rings for agentToken.
PendingFor(agentToken) ==
    {r \in DOMAIN screenshotRequests : HasPrefix(r, agentToken \o <<":">>)}

\* UpdateScreenshotCache, had it kept an entry that is already there.
UpdateScreenshotCache_KeepsFirst(agentToken, data) ==
    /\ screenshotCache' = IF screenshotCache[agentToken] = NoCache
                          THEN [screenshotCache EXCEPT
                                    ![agentToken] = [Data |-> data, UpdatedAt |-> now]]
                          ELSE screenshotCache
    /\ UNCHANGED respChan

UpdateScreenshotCache(agentToken, data) ==
    /\ screenshotCache' = [screenshotCache EXCEPT
            ![agentToken] = [Data |-> data, UpdatedAt |-> now]]
    /\ LET rung == {screenshotRequests[r] : r \in PendingFor(agentToken)} IN
       respChan' = [s \in Syncs |->
            IF s \in rung /\ Len(respChan[s]) < 1
            THEN Append(respChan[s], data)
            ELSE respChan[s]]

\* GetCachedScreenshot's ok, had it been true of a fresh entry only.
HasCachedScreenshot_FreshOnly(agentToken) ==
    /\ screenshotCache[agentToken] # NoCache
    /\ now - screenshotCache[agentToken].UpdatedAt < FreshSeconds

\* GetCachedScreenshot: the ok result.
HasCachedScreenshot(agentToken) == screenshotCache[agentToken] # NoCache

\* The freshness test, had its threshold been a second short.
IsFresh_TwoSeconds(updatedAt) == now - updatedAt < FreshSeconds - 1

\* time.Since(updatedAt) < 3*time.Second
IsFresh(updatedAt) == now - updatedAt < FreshSeconds

\* fmt.Sprintf("%s:%d", agentToken, time.Now().UnixNano())
MakeReqID(agentToken) == agentToken \o <<":", now>>

PutRequest(reqID, s) ==
    [r \in DOMAIN screenshotRequests \cup {reqID} |->
        IF r = reqID THEN s ELSE screenshotRequests[r]]

DeleteRequest(reqID) ==
    [r \in DOMAIN screenshotRequests \ {reqID} |-> screenshotRequests[r]]

\* ------------------------------------------------------------------- DB
\* INSERT OR REPLACE INTO pairing_codes: code is the primary key and
\* agent_token is UNIQUE, so rows that collide on either are replaced.
CreatePairingCode(code, agentToken) ==
    [k \in Codes |->
        IF k = code THEN agentToken
        ELSE IF pairingCodes[k] = agentToken THEN NoToken
        ELSE pairingCodes[k]]

\* expiresAt := time.Now().Add(5 * time.Minute), in the row that is written;
\* a row replaced for its agent_token is gone.
CreatePairingCodeExpiry(code, agentToken) ==
    [k \in Codes |->
        IF k = code THEN now + PairingCodeLife
        ELSE IF pairingCodes[k] = agentToken THEN 0
        ELSE codeExpires[k]]

\* ValidatePairingCode, had the expiry been left out of the query.
ValidatePairingCode_NoExpiry(code) ==
    IF code \in Codes /\ pairingCodes[code] # NoToken
    THEN pairingCodes[code]
    ELSE NoToken

\* SELECT agent_token FROM pairing_codes WHERE code = ? AND expires_at >
\* datetime('now'); NoToken stands for the error of a query without a row.
ValidatePairingCode(code) ==
    IF code \in Codes /\ pairingCodes[code] # NoToken /\ codeExpires[code] > now
    THEN pairingCodes[code]
    ELSE NoToken

\* ------------------------------------------------------- agent connection
Running == panicked = "no"

\* HandleAgentWS: the auth handshake gave a non-empty token.
HandleAgentWS(c, token) ==
    /\ Running
    /\ agentPump[c].rd = "none"
    /\ \A d \in AConns : d < c => agentPump[d].rd # "none"
    /\ RegisterAgent(token, c)
    /\ agentPump' = [agentPump EXCEPT ![c] = [rd |-> "read", wr |-> "run", img |-> ""]]
    /\ UNCHANGED <<hubUserVars, cacheVars, dbVars, now, sync, panicked>>
    /\ UNCHANGED <<trace, chatVars>>

\* agentReadPump: ReadMessage fails; the deferred UnregisterAgent(ac.Token).
AgentReadError(c) ==
    /\ Running
    /\ agentPump[c].rd = "read"
    /\ UnregisterAgent(agentConn[c].Token)
    /\ agentPump' = [agentPump EXCEPT ![c].rd = "exit"]
    /\ UNCHANGED <<hubUserVars, cacheVars, dbVars, now, sync>>
    /\ UNCHANGED <<trace, chatVars>>

\* handleAgentMessage, case "request_pairing_code": the code is stored, then
\* the reply is sent with ac.Send <- resp.
AgentRequestPairingCode(c, code) ==
    /\ Running
    /\ agentPump[c].rd = "read"
    /\ pairingCodes' = CreatePairingCode(code, agentConn[c].Token)
    /\ codeExpires' = CreatePairingCodeExpiry(code, agentConn[c].Token)
    /\ agentPump' = [agentPump EXCEPT ![c].rd = "send"]
    /\ UNCHANGED <<agents, agentConn, hubUserVars, cacheVars, dbAgents, now, sync, panicked>>
    /\ UNCHANGED <<trace, chatVars>>

\* ac.Send <- resp: suspended while the queue is full.
AgentSendPairingCode(c) ==
    /\ Running
    /\ agentPump[c].rd = "send"
    /\ IF agentConn[c].closed
       THEN /\ panicked' = "send on closed channel"
            /\ UNCHANGED <<agentConn, agentPump>>
       ELSE /\ CanEnqueue(agentConn[c])
            /\ agentConn' = [agentConn EXCEPT ![c].Send = Append(@, Msg("pairing_code", ""))]
            /\ agentPump' = [agentPump EXCEPT ![c].rd = "read"]
            /\ UNCHANGED panicked
    /\ UNCHANGED <<agents, hubUserVars, cacheVars, dbVars, now, sync>>
    /\ UNCHANGED <<trace, chatVars>>

\* handleAgentMessage, case "screenshot": the cache is updated when the image
\* is not empty; the raw message is then broadcast.
AgentScreenshot(c, image) ==
    /\ Running
    /\ agentPump[c].rd = "read"
    /\ IF image # ""
       THEN UpdateScreenshotCache(agentConn[c].Token, image)
       ELSE UNCHANGED <<screenshotCache, respChan>>
    /\ agentPump' = [agentPump EXCEPT ![c].rd = "bcast", ![c].img = image]
    /\ trace' = IF trace.on
                THEN [trace EXCEPT !.sent = Append(@, Msg("screenshot", image))]
                ELSE trace
    /\ UNCHANGED <<agents, agentConn, hubUserVars, screenshotRequests, dbVars, now,
                   sync, panicked>>
    /\ UNCHANGED chatVars

AgentBroadcast(c) ==
    /\ Running
    /\ agentPump[c].rd = "bcast"
    /\ BroadcastToAgentUsers(agentConn[c].Token, Msg("screenshot", agentPump[c].img))
    /\ agentPump' = [agentPump EXCEPT ![c].rd = "read", ![c].img = ""]
    /\ UNCHANGED <<agents, agentConn, users, userViewingAgent, userPump, cacheVars,
                   dbVars, now, sync>>
    /\ UNCHANGED <<trace, chatVars>>

\* handleAgentMessage, case "dom_update".
AgentDomUpdate(c) ==
    /\ Running
    /\ agentPump[c].rd = "read"
    /\ BroadcastToAgentUsers(agentConn[c].Token, Msg("dom_update", ""))
    /\ UNCHANGED <<agents, agentConn, agentPump, users, userViewingAgent, userPump,
                   cacheVars, dbVars, now, sync>>
    /\ UNCHANGED <<trace, chatVars>>

\* agentWritePump: a message is taken from ac.Send and written; once the read
\* pump has closed the transport the write fails and nothing more is taken.
AgentWritePump(c) ==
    /\ Running
    /\ agentPump[c].wr = "run"
    /\ agentPump[c].rd # "exit"
    /\ agentConn[c].Send # <<>>
    /\ agentConn' = [agentConn EXCEPT ![c].Send = Tail(@)]
    /\ UNCHANGED <<agents, agentPump, hubUserVars, cacheVars, dbVars, now, sync, panicked>>
    /\ UNCHANGED <<trace, chatVars>>

\* agentWritePump returns: ac.Send is closed and drained, or a write fails
\* because the read pump has closed the transport.
AgentWriteExit(c) ==
    /\ Running
    /\ agentPump[c].wr = "run"
    /\ \/ agentConn[c].Send = <<>> /\ agentConn[c].closed
       \/ agentPump[c].rd = "exit"
    /\ agentPump' = [agentPump EXCEPT ![c].wr = "exit"]
    /\ UNCHANGED <<agents, agentConn, hubUserVars, cacheVars, dbVars, now, sync, panicked>>
    /\ UNCHANGED <<trace, chatVars>>

\* -------------------------------------------------------- user connection
\* HandleUserWS: the session gave a user id other than 0.
HandleUserWS(h, userID) ==
    /\ Running
    /\ userPump[h].rd = "none"
    /\ \A g \in UConns : g < h => userPump[g].rd # "none"
    /\ RegisterUser(userID, h)
    /\ userPump' = [userPump EXCEPT ![h] = [FreeUserPump EXCEPT !.rd = "read", !.wr = "run"]]
    /\ UNCHANGED <<agents, agentConn, agentPump, userViewingAgent, cacheVars, dbVars,
                   now, sync, panicked>>
    /\ UNCHANGED <<trace, chatVars>>

\* userReadPump: ReadMessage fails; the deferred UnregisterUser(uc).
UserReadError(h) ==
    /\ Running
    /\ userPump[h].rd = "read"
    /\ UnregisterUser(h)
    /\ userPump' = [userPump EXCEPT ![h].rd = "exit"]
    /\ UNCHANGED <<agents, agentConn, agentPump, cacheVars, dbVars, now, sync>>
    /\ UNCHANGED <<trace, chatVars>>

\* Hub.UnregisterUser called once more for a connection that has gone.
UnregisterUserAgain(h) ==
    /\ Running
    /\ userPump[h].rd = "exit"
    /\ UnregisterUser(h)
    /\ UNCHANGED <<agents, agentConn, agentPump, userPump, cacheVars, dbVars, now, sync>>
    /\ UNCHANGED <<trace, chatVars>>

\* handleUserMessage, case "connect_agent": the ownership check against the
\* agents table, then SetUserViewingAgent.
UserConnectAgent(h, token) ==
    /\ Running
    /\ userPump[h].rd = "read"
    /\ IF dbAgents[token] # userConn[h].UserID
       THEN /\ userPump' = [userPump EXCEPT ![h].rd = "send",
                                            ![h].out = Msg("error", "Agent not found")]
            /\ UNCHANGED userViewingAgent
       ELSE /\ SetUserViewingAgent(userConn[h].UserID, token)
            /\ userPump' = [userPump EXCEPT ![h].rd = "online", ![h].tok = token]
    /\ UNCHANGED <<agents, agentConn, agentPump, users, userConn, cacheVars, dbVars,
                   now, sync, panicked>>
    /\ UNCHANGED <<trace, chatVars>>

\* ... then IsAgentOnline and the agent_status reply.
UserAgentStatus(h) ==
    /\ Running
    /\ userPump[h].rd = "online"
    /\ userPump' = [userPump EXCEPT ![h].rd = "send", ![h].tok = NoToken,
                        ![h].out = Msg("agent_status", IsAgentOnline(userPump[h].tok))]
    /\ UNCHANGED <<agents, agentConn, agentPump, users, userViewingAgent, userConn,
                   cacheVars, dbVars, now, sync, panicked>>
    /\ UNCHANGED <<trace, chatVars>>

\* uc.Send <- resp (sendError, the agent_status reply): suspended while the
\* queue is full.
UserSend(h) ==
    /\ Running
    /\ userPump[h].rd = "send"
    /\ IF userConn[h].closed
       THEN /\ panicked' = "send on closed channel"
            /\ UNCHANGED <<userConn, userPump>>
       ELSE /\ CanEnqueue(userConn[h])
            /\ userConn' = [userConn EXCEPT ![h].Send = Append(@, userPump[h].out)]
            /\ userPump' = [userPump EXCEPT ![h].rd = "read", ![h].out = NoMsg]
            /\ UNCHANGED panicked
    /\ UNCHANGED <<agents, agentConn, agentPump, users, userViewingAgent, cacheVars,
                   dbVars, now, sync>>
    /\ UNCHANGED <<trace, chatVars>>

\* handleUserMessage, case "navigate", "click", ...: GetUserViewingAgent.
UserCommand(h) ==
    /\ Running
    /\ userPump[h].rd = "read"
    /\ GetUserViewingAgent(userConn[h].UserID) # NoToken
    /\ userPump' = [userPump EXCEPT ![h].rd = "forward",
                        ![h].tok = GetUserViewingAgent(userConn[h].UserID)]
    /\ UNCHANGED <<agents, agentConn, agentPump, users, userViewingAgent, userConn,
                   cacheVars, dbVars, now, sync, panicked>>
    /\ UNCHANGED <<trace, chatVars>>

\* ... then SendToAgent(agentToken, rawMsg); a failure is only logged.
UserForward(h) ==
    /\ Running
    /\ userPump[h].rd = "forward"
    /\ SendToAgent(userPump[h].tok, Msg("command", userConn[h].UserID))
    /\ userPump' = [userPump EXCEPT ![h].rd = "read", ![h].tok = NoToken,
                        ![h].fwd = IF SendToAgentOK(userPump[h].tok)
                                   THEN "sent" ELSE "Failed to send to agent"]
    /\ UNCHANGED <<agents, agentPump, users, userViewingAgent, userConn, cacheVars,
                   dbVars, now, sync>>
    /\ UNCHANGED <<trace, chatVars>>

\* userWritePump, had it written the message and left it in the queue.
UserWritePump_KeepsHead(h) ==
    /\ Running
    /\ userPump[h].wr = "run"
    /\ userPump[h].rd # "exit"
    /\ userConn[h].Send # <<>>
    /\ trace' = IF trace.on /\ Head(userConn[h].Send)[1] = "screenshot"
                THEN [trace EXCEPT !.wire = Append(@, Head(userConn[h].Send))]
                ELSE trace
    /\ UNCHANGED <<agents, agentConn, agentPump, users, userViewingAgent, userConn,
                   userPump, cacheVars, dbVars, now, sync, panicked>>
    /\ UNCHANGED chatVars

\* userWritePump: a message is taken from uc.Send and written; once the read
\* pump has closed the transport the write fails and nothing more is taken.
UserWritePump(h) ==
    /\ Running
    /\ userPump[h].wr = "run"
    /\ userPump[h].rd # "exit"
    /\ userConn[h].Send # <<>>
    /\ userConn' = [userConn EXCEPT ![h].Send = Tail(@)]
    /\ trace' = IF trace.on /\ Head(userConn[h].Send)[1] = "screenshot"
                THEN [trace EXCEPT !.wire = Append(@, Head(userConn[h].Send))]
                ELSE trace
    /\ UNCHANGED <<agents, agentConn, agentPump, users, userViewingAgent, userPump,
                   cacheVars, dbVars, now, sync, panicked>>
    /\ UNCHANGED chatVars

UserWriteExit(h) ==
    /\ Running
    /\ userPump[h].wr = "run"
    /\ \/ userConn[h].Send = <<>> /\ userConn[h].closed
       \/ userPump[h].rd = "exit"
    /\ userPump' = [userPump EXCEPT ![h].wr = "exit"]
    /\ UNCHANGED <<agents, agentConn, agentPump, users, userViewingAgent, userConn,
                   cacheVars, dbVars, now, sync, panicked>>
    /\ UNCHANGED <<trace, chatVars>>

\* ------------------------------------------------- RequestScreenshotSync
\* The call starts: the cached screenshot is returned when it is fresh.
SyncCall(s, agentToken, timeout) ==
    /\ Running
    /\ sync[s].pc = "idle"
    /\ IF /\ HasCachedScreenshot(agentToken)
          /\ IsFresh(screenshotCache[agentToken].UpdatedAt)
       THEN sync' = [sync EXCEPT ![s] = [IdleSync EXCEPT
                        !.pc = "done", !.token = agentToken,
                        !.data = screenshotCache[agentToken].Data, !.err = "nil"]]
       ELSE sync' = [sync EXCEPT ![s] = [IdleSync EXCEPT
                        !.pc = "register", !.token = agentToken, !.timeout = timeout]]
    /\ UNCHANGED <<agents, agentConn, agentPump, hubUserVars, cacheVars, dbVars, now, panicked>>
    /\ UNCHANGED <<trace, chatVars>>

\* The request id is made and the response channel registered under it.
SyncRegister(s) ==
    /\ Running
    /\ sync[s].pc = "register"
    /\ LET reqID == MakeReqID(sync[s].token) IN
       /\ screenshotRequests' = PutRequest(reqID, s)
       /\ sync' = [sync EXCEPT ![s].pc = "send", ![s].reqID = reqID]
    /\ respChan' = [respChan EXCEPT ![s] = <<>>]
    /\ UNCHANGED <<agents, agentConn, agentPump, hubUserVars, screenshotCache, dbVars,
                   now, panicked>>
    /\ UNCHANGED <<trace, chatVars>>

\* request_screenshot is sent to the agent; a failed send ends the call.
SyncSend(s) ==
    /\ Running
    /\ sync[s].pc = "send"
    /\ SendToAgent(sync[s].token, Msg("request_screenshot", ""))
    /\ sync' = IF SendToAgentOK(sync[s].token)
               THEN [sync EXCEPT ![s].pc = "wait", ![s].timeout = 0,
                                 ![s].deadline = now + sync[s].timeout]
               ELSE [sync EXCEPT ![s].pc = "cleanup", ![s].timeout = 0,
                                 ![s].err = "agent not connected"]
    /\ UNCHANGED <<agents, agentPump, hubUserVars, cacheVars, dbVars, now>>
    /\ UNCHANGED <<trace, chatVars>>

\* select, case screenshot := <-respChan.
SyncReceive(s) ==
    /\ Running
    /\ sync[s].pc = "wait"
    /\ respChan[s] # <<>>
    /\ sync' = [sync EXCEPT ![s].pc = "cleanup", ![s].deadline = 0,
                            ![s].data = Head(respChan[s]), ![s].err = "nil"]
    /\ respChan' = [respChan EXCEPT ![s] = Tail(@)]
    /\ UNCHANGED <<agents, agentConn, agentPump, hubUserVars, screenshotCache,
                   screenshotRequests, dbVars, now, panicked>>
    /\ UNCHANGED <<trace, chatVars>>

\* The timeout case, had its timer fired a second after the deadline.
SyncTimeout_AfterDeadline(s) ==
    /\ Running
    /\ sync[s].pc = "wait"
    /\ now > sync[s].deadline
    /\ IF HasCachedScreenshot(sync[s].token)
       THEN sync' = [sync EXCEPT ![s].pc = "cleanup", ![s].deadline = 0,
                                 ![s].err = "nil",
                                 ![s].data = screenshotCache[sync[s].token].Data]
       ELSE sync' = [sync EXCEPT ![s].pc = "cleanup", ![s].deadline = 0,
                                 ![s].err = "screenshot request timed out"]
    /\ UNCHANGED <<agents, agentConn, agentPump, hubUserVars, cacheVars, dbVars, now, panicked>>
    /\ UNCHANGED <<trace, chatVars>>

\* select, case <-time.After(timeout): the cache is the fallback.
SyncTimeout(s) ==
    /\ Running
    /\ sync[s].pc = "wait"
    /\ now >= sync[s].deadline
    /\ IF HasCachedScreenshot(sync[s].token)
       THEN sync' = [sync EXCEPT ![s].pc = "cleanup", ![s].deadline = 0,
                                 ![s].err = "nil",
                                 ![s].data = screenshotCache[sync[s].token].Data]
       ELSE sync' = [sync EXCEPT ![s].pc = "cleanup", ![s].deadline = 0,
                                 ![s].err = "screenshot request timed out"]
    /\ UNCHANGED <<agents, agentConn, agentPump, hubUserVars, cacheVars, dbVars, now, panicked>>
    /\ UNCHANGED <<trace, chatVars>>

\* The cleanup, had it been written after the select instead of deferred: a
\* return with an error leaves the entry.
SyncCleanup_NotDeferred(s) ==
    /\ Running
    /\ sync[s].pc = "cleanup"
    /\ screenshotRequests' = IF sync[s].err = "nil"
                             THEN DeleteRequest(sync[s].reqID)
                             ELSE screenshotRequests
    /\ sync' = [sync EXCEPT ![s].pc = "done"]
    /\ UNCHANGED <<agents, agentConn, agentPump, hubUserVars, screenshotCache, respChan,
                   dbVars, now, panicked>>
    /\ UNCHANGED <<trace, chatVars>>

\* The deferred delete(h.screenshotRequests, reqID); the call then returns.
SyncCleanup(s) ==
    /\ Running
    /\ sync[s].pc = "cleanup"
    /\ screenshotRequests' = DeleteRequest(sync[s].reqID)
    /\ sync' = [sync EXCEPT ![s].pc = "done"]
    /\ UNCHANGED <<agents, agentConn, agentPump, hubUserVars, screenshotCache, respChan,
                   dbVars, now, panicked>>
    /\ UNCHANGED <<trace, chatVars>>

\* The caller has taken the result; the goroutine may call again.
SyncReturn(s) ==
    /\ Running
    /\ sync[s].pc = "done"
    /\ sync' = [sync EXCEPT ![s] = IdleSync]
    /\ respChan' = [respChan EXCEPT ![s] = <<>>]
    /\ UNCHANGED <<agents, agentConn, agentPump, hubUserVars, screenshotCache,
                   screenshotRequests, dbVars, now, panicked>>
    /\ UNCHANGED <<trace, chatVars>>

\* ------------------------------------------------------ handleChatMessage
\* The chat_response messages of sendChatResponse and sendChatError.
ChatResponse(role, content, screenshot, actions) ==
    Msg("chat_response", [Role |-> role, Content |-> content, Screenshot |-> screenshot,
                          Actions |-> actions, IsError |-> FALSE])
ChatErrorResponse(message) ==
    Msg("chat_response", [Role |-> "system", Content |-> message, Screenshot |-> "",
                          Actions |-> <<>>, IsError |-> TRUE])

\* The ConversationMessage constructors; an image is kept as its payload.
CreateTextMessage(role, text) ==
    [Role |-> role, Content |-> <<[Type |-> "text", Text |-> text]>>]
CreateImageMessage(role, text, base64Image) ==
    [Role |-> role,
     Content |-> (IF base64Image # "" THEN <<[Type |-> "image", Data |-> base64Image]>> ELSE <<>>)
                 \o (IF text # "" THEN <<[Type |-> "text", Text |-> text]>> ELSE <<>>)]
CreateAssistantToolUseMessage(textContent, toolCalls) ==
    [Role |-> "assistant",
     Content |-> (IF textContent # "" THEN <<[Type |-> "text", Text |-> textContent]>> ELSE <<>>)
                 \o [n \in 1..Len(toolCalls) |->
                        [Type |-> "tool_use", ID |-> toolCalls[n].ID, Name |-> toolCalls[n].Name]]]
CreateToolResultMessage(results) ==
    [Role |-> "user",
     Content |-> [n \in 1..Len(results) |->
                    [Type |-> "tool_result", ToolUseID |-> results[n].ToolUseID,
                     IsError |-> results[n].IsError]]]

\* ------------------------------------------------------------ conversation
\* for _, block := range msg.Content { if block.Type == t { ... } }
HasBlock(msg, t) == \E n \in 1..Len(msg.Content) : msg.Content[n].Type = t
HasToolUse(msg) == HasBlock(msg, "tool_use")
HasToolResult(msg) == HasBlock(msg, "tool_result")

\* TrimToLastN as src/server/claude/conversation.go has it: the last n
\* messages, wherever that cuts.
TrimToLastN_Plain(messages, n) ==
    IF n >= Len(messages) THEN messages
    ELSE SubSeq(messages, Len(messages) - n + 1, Len(messages))

\* TrimToLastN, had it cut at the last n messages and then dropped a first
\* message left with a tool_result.
TrimToLastN_DropsOrphan(messages, n) ==
    LET kept == TrimToLastN_Plain(messages, n) IN
    IF kept # <<>> /\ HasToolResult(kept[1]) THEN Tail(kept) ELSE kept

\* TrimToLastN's loop over start, an index counted from 0: it steps back over
\* a message with a tool_result and over a message whose predecessor has a
\* tool_use.
RECURSIVE TrimStart(_, _)
TrimStart(messages, start) ==
    IF start > 0 /\ start < Len(messages)
    THEN IF HasToolResult(messages[start + 1]) THEN TrimStart(messages, start - 1)
         ELSE IF HasToolUse(messages[start]) THEN TrimStart(messages, start - 1)
         ELSE start
    ELSE start

\* TrimToLastN: c.Messages afterwards.
TrimToLastN(messages, n) ==
    IF n >= Len(messages) THEN messages
    ELSE SubSeq(messages, TrimStart(messages, Len(messages) - n) + 1, Len(messages))

\* ValidateAndClean's loop, had the test for a following message been
\* i+2 < len(messages).
RECURSIVE CleanFrom_OffByOne(_, _, _)
CleanFrom_OffByOne(messages, i, result) ==
    IF i > Len(messages) THEN result
    ELSE LET msg == messages[i]
             keep == IF HasToolUse(msg)
                     THEN i + 2 <= Len(messages) /\ HasToolResult(messages[i + 1])
                     ELSE IF HasToolResult(msg)
                     THEN Len(result) > 0 /\ HasToolUse(result[Len(result)])
                     ELSE TRUE
         IN  CleanFrom_OffByOne(messages, i + 1, IF keep THEN Append(result, msg) ELSE result)

\* ValidateAndClean's loop from messages[i] on (i counted from 1), result being
\* what has been kept: a tool_use message is kept when the next message has a
\* tool_result, a tool_result message when the last kept message has a
\* tool_use, any other message always.
RECURSIVE CleanFrom(_, _, _)
CleanFrom(messages, i, result) ==
    IF i > Len(messages) THEN result
    ELSE LET msg == messages[i]
             keep == IF HasToolUse(msg)
                     THEN i + 1 <= Len(messages) /\ HasToolResult(messages[i + 1])
                     ELSE IF HasToolResult(msg)
                     THEN Len(result) > 0 /\ HasToolUse(result[Len(result)])
                     ELSE TRUE
         IN  CleanFrom(messages, i + 1, IF keep THEN Append(result, msg) ELSE result)

ValidateAndClean(messages) == CleanFrom(messages, 1, <<>>)

\* if conv.MessageCount() > 20 { conv.TrimToLastN(20) }
TrimmedForLoop(messages) ==
    IF Len(messages) > TrimTarget THEN TrimToLastN(messages, TrimTarget) ELSE messages

\* Conversation.AddMessage(msg).
ConvAddMessage(msg) ==
    /\ Running
    /\ conv' = Append(conv, msg)
    /\ UNCHANGED <<agents, agentConn, agentPump, hubUserVars, cacheVars, dbVars, now,
                   sync, panicked, trace, chat>>
    /\ UNCHANGED loopVars

\* Conversation.TrimToLastN(n).
ConvTrimToLastN(n) ==
    /\ Running
    /\ conv' = TrimToLastN(conv, n)
    /\ trace' = IF trace.on
                THEN [trace EXCEPT !.call = <<[op |-> "TrimToLastN", n |-> n,
                                               before |-> conv, after |-> conv']>>]
                ELSE trace
    /\ UNCHANGED <<agents, agentConn, agentPump, hubUserVars, cacheVars, dbVars, now,
                   sync, panicked, chat>>
    /\ UNCHANGED loopVars

\* messages := conv.GetMessages(); messages = ValidateAndClean(messages), as
\* every iteration of handleChatMessage's loop starts.
ConvClean ==
    /\ Running
    /\ chat' = [chat EXCEPT !.messages = ValidateAndClean(conv)]
    /\ trace' = IF trace.on
                THEN [trace EXCEPT !.call = <<[op |-> "ValidateAndClean", n |-> 0,
                                               before |-> conv, after |-> chat'.messages]>>]
                ELSE trace
    /\ UNCHANGED <<agents, agentConn, agentPump, hubUserVars, cacheVars, dbVars, now,
                   sync, panicked, conv>>
    /\ UNCHANGED loopVars

\* uc.Send <- resp is next; the goroutine goes on at label after it.
Sending(c, msg, label) == [c EXCEPT !.pc = "send", !.out = msg, !.then = label]

\* The end of the loop body, had the test been i <= maxIterations.
NextIteration_OneMore(c) ==
    [c EXCEPT !.i = @ + 1,
              !.pc = IF c.i + 1 <= MaxIterations THEN "llm" ELSE "done",
              !.resp = NoResp, !.k = 0, !.results = <<>>, !.messages = <<>>,
              !.newScreenshot = "", !.screenshotForClaude = ""]

\* The end of the loop body: i++ and the test i < maxIterations.
NextIteration(c) ==
    [c EXCEPT !.i = @ + 1,
              !.pc = IF c.i + 1 < MaxIterations THEN "llm" ELSE "done",
              !.resp = NoResp, !.k = 0, !.results = <<>>, !.messages = <<>>,
              !.newScreenshot = "", !.screenshotForClaude = ""]

\* break, or return: the goroutine is over.
Finished(c) ==
    [c EXCEPT !.pc = "done", !.resp = NoResp, !.k = 0, !.results = <<>>,
              !.messages = <<>>,
              !.newScreenshot = "", !.screenshotForClaude = ""]

\* if screenshotForClaude != "" { sendChatResponse ... }
AfterScreenshotForClaude(c) ==
    IF c.screenshotForClaude # ""
    THEN Sending(c, ChatResponse("system", "", c.screenshotForClaude, <<>>), "updAfter")
    ELSE NextIteration(c)

\* if newScreenshot != "" { sendChatResponse ... }
AfterActions(c) ==
    IF c.newScreenshot # ""
    THEN Sending(c, ChatResponse("system", "", c.newScreenshot, <<>>), "updNew")
    ELSE [c EXCEPT !.pc = "results"]

\* ExecuteToolCalls has returned: the action descriptions are those of the
\* results that are no error; if len(actions) > 0 { sendChatResponse ... }
AfterTools(c) ==
    LET done == SelectSeq(c.results, LAMBDA r : r.Content # "" /\ ~r.IsError)
        actions == [n \in 1..Len(done) |-> done[n].ToolUseID]
    IN  IF actions # <<>>
        THEN Sending(c, ChatResponse("system", "", "", actions), "newShot")
        ELSE AfterActions(c)

\* ExecuteToolCalls' loop body, had a failed tool ended the loop over the calls.
AfterToolResult_StopsOnError(c, result, screenshot) ==
    LET tc == c.resp.ToolCalls[c.k]
        c1 == [c EXCEPT !.results = Append(@, result),
                        !.newScreenshot = IF tc.Name = "take_screenshot" /\ screenshot # ""
                                          THEN screenshot ELSE @,
                        !.k = @ + 1]
    IN  IF c1.k > Len(c.resp.ToolCalls) \/ result.IsError THEN AfterTools(c1) ELSE c1

\* ExecuteToolCalls' loop body after ExecuteTool returned result and screenshot;
\* the error ExecuteTool returns is nil on every path, so the loop is never left
\* early.
AfterToolResult(c, result, screenshot) ==
    LET tc == c.resp.ToolCalls[c.k]
        c1 == [c EXCEPT !.results = Append(@, result),
                        !.newScreenshot = IF tc.Name = "take_screenshot" /\ screenshot # ""
                                          THEN screenshot ELSE @,
                        !.k = @ + 1]
    IN  IF c1.k > Len(c.resp.ToolCalls) THEN AfterTools(c1) ELSE c1

\* The same, had the screenshot not been sent to the frontend.
AfterFirstScreenshot_NoSend(c, screenshot) == [c EXCEPT !.pc = "llm"]

\* The user message is made and added; the screenshot goes to the frontend.
AfterFirstScreenshot(c, screenshot) ==
    IF screenshot # ""
    THEN Sending(c, ChatResponse("system", "", screenshot, <<>>), "llm")
    ELSE [c EXCEPT !.pc = "llm"]

\* handleUserMessage, case "chat_message": GetUserViewingAgent.
ChatMessage(h) ==
    /\ Running
    /\ userPump[h].rd = "read"
    /\ chat.pc = "idle"
    /\ IF GetUserViewingAgent(userConn[h].UserID) = NoToken
       THEN userPump' = [userPump EXCEPT ![h].rd = "send",
                            ![h].out = ChatErrorResponse("no agent selected")]
       ELSE userPump' = [userPump EXCEPT ![h].rd = "chat",
                            ![h].tok = GetUserViewingAgent(userConn[h].UserID)]
    /\ UNCHANGED <<agents, agentConn, agentPump, users, userViewingAgent, userConn,
                   cacheVars, dbVars, now, sync, panicked, trace, chatVars>>

\* ... then IsAgentOnline; go handleChatMessage(uc, agentToken, message).
ChatSpawn(h) ==
    /\ Running
    /\ userPump[h].rd = "chat"
    /\ IF IsAgentOnline(userPump[h].tok)
       THEN /\ chat' = [IdleChat EXCEPT !.pc = "shot", !.uc = h,
                                        !.agentToken = userPump[h].tok]
            /\ userPump' = [userPump EXCEPT ![h].rd = "read", ![h].tok = NoToken]
       ELSE /\ userPump' = [userPump EXCEPT ![h].rd = "send", ![h].tok = NoToken,
                                ![h].out = ChatErrorResponse("agent offline")]
            /\ UNCHANGED chat
    /\ UNCHANGED <<agents, agentConn, agentPump, users, userViewingAgent, userConn,
                   cacheVars, dbVars, now, sync, panicked, trace, conv>>
    /\ UNCHANGED loopVars

\* GetCachedScreenshot; with an entry the user message is made from it.
ChatGetScreenshot ==
    /\ Running
    /\ chat.pc = "shot"
    /\ IF HasCachedScreenshot(chat.agentToken)
       THEN LET screenshot == screenshotCache[chat.agentToken].Data IN
            /\ conv' = Append(conv, IF screenshot # ""
                                    THEN CreateImageMessage("user", "M", screenshot)
                                    ELSE CreateTextMessage("user", "M"))
            /\ chat' = AfterFirstScreenshot(chat, screenshot)
       ELSE /\ chat' = [chat EXCEPT !.pc = "sync", !.at = "first"]
            /\ UNCHANGED conv
    /\ UNCHANGED <<agents, agentConn, agentPump, hubUserVars, cacheVars, dbVars, now,
                   sync, panicked, trace>>
    /\ UNCHANGED loopVars

\* RequestScreenshotSync is entered by the goroutine.
ChatRequestScreenshot(s, timeout) ==
    /\ chat.pc = "sync"
    /\ SyncCall(s, chat.agentToken, timeout)

\* RequestScreenshotSync has returned to the goroutine.
ChatScreenshotReturned(s) ==
    /\ Running
    /\ chat.pc = "sync"
    /\ sync[s].pc = "done"
    /\ sync' = [sync EXCEPT ![s] = IdleSync]
    /\ respChan' = [respChan EXCEPT ![s] = <<>>]
    /\ LET screenshot == sync[s].data
           failed == sync[s].err # "nil"
           c == [chat EXCEPT !.at = ""]
       IN  CASE chat.at = "first" ->
                    /\ conv' = Append(conv, IF screenshot # ""
                                            THEN CreateImageMessage("user", "M", screenshot)
                                            ELSE CreateTextMessage("user", "M"))
                    /\ chat' = AfterFirstScreenshot(c, screenshot)
             [] chat.at = "tool" ->
                    /\ chat' = AfterToolResult([c EXCEPT !.pc = "tool"],
                                    ToolResult(chat.resp.ToolCalls[chat.k].ID, "text", failed),
                                    screenshot)
                    /\ UNCHANGED conv
             [] chat.at = "after" ->
                    /\ chat' = AfterScreenshotForClaude(
                                    [c EXCEPT !.screenshotForClaude = screenshot])
                    /\ UNCHANGED conv
    /\ UNCHANGED <<agents, agentConn, agentPump, hubUserVars, screenshotCache,
                   screenshotRequests, dbVars, now, panicked, trace>>
    /\ UNCHANGED loopVars

\* uc.Send <- resp in sendChatResponse / sendChatError.
ChatSend ==
    /\ Running
    /\ chat.pc = "send"
    /\ IF userConn[chat.uc].closed
       THEN /\ panicked' = "send on closed channel"
            /\ UNCHANGED <<userConn, chat>>
       ELSE /\ CanEnqueue(userConn[chat.uc])
            /\ userConn' = [userConn EXCEPT ![chat.uc].Send = Append(@, chat.out)]
            /\ LET c == [chat EXCEPT !.out = NoMsg, !.then = ""] IN
               chat' = CASE chat.then = "newShot" -> AfterActions(c)
                         [] chat.then = "done" -> Finished(c)
                         [] OTHER -> [c EXCEPT !.pc = chat.then]
            /\ UNCHANGED panicked
    /\ UNCHANGED <<agents, agentConn, agentPump, users, userViewingAgent, userPump,
                   cacheVars, dbVars, now, sync, trace, conv>>
    /\ UNCHANGED loopVars

\* client.Chat, had a failed call been tried again.
ChatLLM_Retries(r) ==
    /\ Running
    /\ chat.pc = "llm"
    /\ conv' = IF chat.i = 0 THEN TrimmedForLoop(conv) ELSE conv
    /\ LET c == [chat EXCEPT !.calls = @ + 1, !.resp = r,
                             !.messages = ValidateAndClean(conv')] IN
       chat' = IF r.err
               THEN [c EXCEPT !.pc = "llm"]
               ELSE IF r.TextContent # ""
               THEN Sending(c, ChatResponse("assistant", r.TextContent, "", <<>>), "branch")
               ELSE [c EXCEPT !.pc = "branch"]
    /\ UNCHANGED <<agents, agentConn, agentPump, hubUserVars, cacheVars, dbVars, now,
                   sync, panicked, trace>>
    /\ UNCHANGED loopVars

\* Before the first iteration the conversation is trimmed; then, in every
\* iteration, messages := ValidateAndClean(conv.GetMessages()) and
\* resp, err := client.Chat(messages, tools), and what is sent at once.
ChatLLM(r) ==
    /\ Running
    /\ chat.pc = "llm"
    /\ conv' = IF chat.i = 0 THEN TrimmedForLoop(conv) ELSE conv
    /\ LET c == [chat EXCEPT !.calls = @ + 1, !.resp = r,
                             !.messages = ValidateAndClean(conv')] IN
       chat' = IF r.err
               THEN Sending(c, ChatErrorResponse("AI error"), "done")
               ELSE IF r.TextContent # ""
               THEN Sending(c, ChatResponse("assistant", r.TextContent, "", <<>>), "branch")
               ELSE [c EXCEPT !.pc = "branch"]
    /\ UNCHANGED <<agents, agentConn, agentPump, hubUserVars, cacheVars, dbVars, now,
                   sync, panicked, trace>>
    /\ UNCHANGED loopVars

\* The same, had the assistant text been added without the test for "".
ChatBranch_AlwaysAppends ==
    /\ Running
    /\ chat.pc = "branch"
    /\ IF chat.resp.ToolCalls = <<>>
       THEN /\ conv' = Append(conv, CreateTextMessage("assistant", chat.resp.TextContent))
            /\ chat' = Finished(chat)
       ELSE /\ conv' = Append(conv, CreateAssistantToolUseMessage(chat.resp.TextContent,
                                                                 chat.resp.ToolCalls))
            /\ chat' = [chat EXCEPT !.pc = "tool", !.k = 1]
    /\ UNCHANGED <<agents, agentConn, agentPump, hubUserVars, cacheVars, dbVars, now,
                   sync, panicked, trace>>
    /\ UNCHANGED loopVars

\* if len(resp.ToolCalls) == 0 { ...; break }, else the assistant message with
\* the tool calls is added.
ChatBranch ==
    /\ Running
    /\ chat.pc = "branch"
    /\ IF chat.resp.ToolCalls = <<>>
       THEN /\ conv' = IF chat.resp.TextContent # ""
                       THEN Append(conv, CreateTextMessage("assistant", chat.resp.TextContent))
                       ELSE conv
            /\ chat' = Finished(chat)
       ELSE /\ conv' = Append(conv, CreateAssistantToolUseMessage(chat.resp.TextContent,
                                                                 chat.resp.ToolCalls))
            /\ chat' = [chat EXCEPT !.pc = "tool", !.k = 1]
    /\ UNCHANGED <<agents, agentConn, agentPump, hubUserVars, cacheVars, dbVars, now,
                   sync, panicked, trace>>
    /\ UNCHANGED loopVars

\* ExecuteToolCalls, had it taken the calls last to first.
ChatTool_LastFirst ==
    /\ Running
    /\ chat.pc = "tool"
    /\ LET tc == chat.resp.ToolCalls[Len(chat.resp.ToolCalls) + 1 - chat.k] IN
       CASE tc.Name = "take_screenshot" ->
                /\ chat' = [chat EXCEPT !.pc = "sync", !.at = "tool"]
                /\ UNCHANGED <<agentConn, panicked>>
         [] tc.Name = "click" /\ ~tc.valid ->
                /\ chat' = AfterToolResult(chat, ToolResult(tc.ID, "text", TRUE), "")
                /\ UNCHANGED <<agentConn, panicked>>
         [] tc.Name = "click" /\ tc.valid ->
                /\ SendToAgent(chat.agentToken, Msg("click_xy", tc.ID))
                /\ chat' = AfterToolResult(chat,
                                ToolResult(tc.ID, "text", ~SendToAgentOK(chat.agentToken)), "")
         [] tc.Name = "type_text" /\ ~tc.valid ->
                /\ chat' = AfterToolResult(chat, ToolResult(tc.ID, "text", TRUE), "")
                /\ UNCHANGED <<agentConn, panicked>>
         [] tc.Name = "type_text" /\ tc.valid ->
                /\ SendToAgent(chat.agentToken,
                               IF tc.Text \in keyNames
                               THEN Msg("key", tc.Text) ELSE Msg("input", tc.Text))
                /\ chat' = AfterToolResult(chat,
                                ToolResult(tc.ID, "text", ~SendToAgentOK(chat.agentToken)), "")
         [] OTHER ->
                /\ chat' = AfterToolResult(chat, ToolResult(tc.ID, "text", TRUE), "")
                /\ UNCHANGED <<agentConn, panicked>>
    /\ UNCHANGED <<agents, agentPump, hubUserVars, cacheVars, dbVars, now, sync, trace, conv>>
    /\ UNCHANGED loopVars

\* ExecuteTool(toolCalls[k]).
ChatTool ==
    /\ Running
    /\ chat.pc = "tool"
    /\ LET tc == chat.resp.ToolCalls[chat.k] IN
       CASE tc.Name = "take_screenshot" ->
                /\ chat' = [chat EXCEPT !.pc = "sync", !.at = "tool"]
                /\ UNCHANGED <<agentConn, panicked>>
         [] tc.Name = "click" /\ ~tc.valid ->
                /\ chat' = AfterToolResult(chat, ToolResult(tc.ID, "text", TRUE), "")
                /\ UNCHANGED <<agentConn, panicked>>
         [] tc.Name = "click" /\ tc.valid ->
                /\ SendToAgent(chat.agentToken, Msg("click_xy", tc.ID))
                /\ chat' = AfterToolResult(chat,
                                ToolResult(tc.ID, "text", ~SendToAgentOK(chat.agentToken)), "")
         [] tc.Name = "type_text" /\ ~tc.valid ->
                /\ chat' = AfterToolResult(chat, ToolResult(tc.ID, "text", TRUE), "")
                /\ UNCHANGED <<agentConn, panicked>>
         [] tc.Name = "type_text" /\ tc.valid ->
                /\ SendToAgent(chat.agentToken,
                               IF tc.Text \in keyNames
                               THEN Msg("key", tc.Text) ELSE Msg("input", tc.Text))
                /\ chat' = AfterToolResult(chat,
                                ToolResult(tc.ID, "text", ~SendToAgentOK(chat.agentToken)), "")
         [] OTHER ->
                /\ chat' = AfterToolResult(chat, ToolResult(tc.ID, "text", TRUE), "")
                /\ UNCHANGED <<agentConn, panicked>>
    /\ UNCHANGED <<agents, agentPump, hubUserVars, cacheVars, dbVars, now, sync, trace, conv>>
    /\ UNCHANGED loopVars

\* UpdateScreenshotCache(agentToken, newScreenshot).
ChatUpdateNew ==
    /\ Running
    /\ chat.pc = "updNew"
    /\ UpdateScreenshotCache(chat.agentToken, chat.newScreenshot)
    /\ chat' = [chat EXCEPT !.pc = "results"]
    /\ UNCHANGED <<agents, agentConn, agentPump, hubUserVars, screenshotRequests, dbVars,
                   now, sync, panicked, trace, conv>>
    /\ UNCHANGED loopVars

\* The same, had the screenshot after the actions been asked for only when no
\* call was take_screenshot.
ChatResults_NoneAScreenshot ==
    /\ Running
    /\ chat.pc = "results"
    /\ conv' = Append(conv, CreateToolResultMessage(chat.results))
    /\ chat' = IF \A n \in 1..Len(chat.resp.ToolCalls) :
                        chat.resp.ToolCalls[n].Name # "take_screenshot"
               THEN [chat EXCEPT !.pc = "sync", !.at = "after"]
               ELSE AfterScreenshotForClaude(
                        [chat EXCEPT !.screenshotForClaude = chat.newScreenshot])
    /\ UNCHANGED <<agents, agentConn, agentPump, hubUserVars, cacheVars, dbVars, now,
                   sync, panicked, trace>>
    /\ UNCHANGED loopVars

\* The tool results are added; then the screenshot after the actions.
ChatResults ==
    /\ Running
    /\ chat.pc = "results"
    /\ conv' = Append(conv, CreateToolResultMessage(chat.results))
    /\ chat' = IF \E n \in 1..Len(chat.resp.ToolCalls) :
                        chat.resp.ToolCalls[n].Name # "take_screenshot"
               THEN [chat EXCEPT !.pc = "sync", !.at = "after"]
               ELSE AfterScreenshotForClaude(
                        [chat EXCEPT !.screenshotForClaude = chat.newScreenshot])
    /\ UNCHANGED <<agents, agentConn, agentPump, hubUserVars, cacheVars, dbVars, now,
                   sync, panicked, trace>>
    /\ UNCHANGED loopVars

\* UpdateScreenshotCache(agentToken, screenshotForClaude); the screenshot is
\* added to the conversation.
ChatUpdateAfter ==
    /\ Running
    /\ chat.pc = "updAfter"
    /\ UpdateScreenshotCache(chat.agentToken, chat.screenshotForClaude)
    /\ conv' = Append(conv, CreateImageMessage("user", "S", chat.screenshotForClaude))
    /\ chat' = NextIteration(chat)
    /\ UNCHANGED <<agents, agentConn, agentPump, hubUserVars, screenshotRequests, dbVars,
                   now, sync, panicked, trace>>
    /\ UNCHANGED loopVars

\* ------------------------------------------- ConversationManager, loops
\* strconv of a user id, as the %d of fmt.Sprintf writes it.
DigitChar == <<"0", "1", "2", "3", "4", "5", "6", "7", "8", "9">>

RECURSIVE Digits(_)
Digits(n) ==
    IF n < 10 THEN <<DigitChar[n + 1]>>
    ELSE Digits(n \div 10) \o <<DigitChar[(n % 10) + 1]>>

\* getConversationID, had the agent token been left out of the id.
getConversationID_UserOnly(userID, agentToken) == Digits(userID)

\* fmt.Sprintf("%d:%s", userID, agentToken)
getConversationID(userID, agentToken) == Digits(userID) \o <<":">> \o agentToken

\* The keys the map can come to hold.
ConvKeys ==
    {getConversationID(u, t) : u \in UserIDs, t \in Tokens}
        \cup {getConversationID_UserOnly(u, t) : u \in UserIDs, t \in Tokens}

\* The pointers to Conversation objects, in the order in which the objects
\* are made, and the value of a key the map does not hold.
RefOrder == <<"o1", "o2">>
Refs == {RefOrder[i] : i \in 1..Len(RefOrder)}
NoRef == ""
\* An object that is not made yet; &Conversation{ID: id, ..., Messages: []}.
NoConversation == [exists |-> FALSE, ID |-> <<>>, Messages |-> <<>>]
NewConversation(id) == [exists |-> TRUE, ID |-> id, Messages |-> <<>>]
NewRef ==
    RefOrder[CHOOSE i \in 1..Len(RefOrder) :
                /\ ~convs[RefOrder[i]].exists
                /\ \A j \in 1..(i - 1) : convs[RefOrder[j]].exists]

\* The handleChatMessage goroutines that run side by side.  Each is kept by
\* what it was started with (uc, agentToken), the conversation GetOrCreate
\* gave it, and which of its calls it has made: the order of the calls on
\* what it holds is left open.
Loops == {"l1", "l2"}
IdleLoop == [pc |-> "idle", uc |-> NoConn, agentToken |-> NoToken, conv |-> NoRef, did |-> {}]

\* handleUserMessage, case "chat_message": go handleChatMessage(uc, agentToken, ...)
LoopSpawn(l, h) ==
    /\ Running
    /\ userPump[h].rd = "chat"
    /\ loops[l].pc = "idle"
    /\ IF IsAgentOnline(userPump[h].tok)
       THEN /\ loops' = [loops EXCEPT ![l] = [IdleLoop EXCEPT !.pc = "create", !.uc = h,
                                                  !.agentToken = userPump[h].tok]]
            /\ userPump' = [userPump EXCEPT ![h].rd = "read", ![h].tok = NoToken]
       ELSE /\ userPump' = [userPump EXCEPT ![h].rd = "send", ![h].tok = NoToken,
                                ![h].out = ChatErrorResponse("agent offline")]
            /\ UNCHANGED loops
    /\ UNCHANGED <<agents, agentConn, agentPump, users, userViewingAgent, userConn,
                   cacheVars, dbVars, now, sync, panicked, trace, chat, conv, mgr, convs>>
    /\ UNCHANGED pair

\* conv := GlobalConversationManager.GetOrCreate(uc.UserID, agentToken), the
\* lookup under the read lock: a conversation that is there is returned.
LoopGetOrCreate(l) ==
    /\ Running
    /\ loops[l].pc = "create"
    /\ LET id == getConversationID(userConn[loops[l].uc].UserID, loops[l].agentToken) IN
       loops' = IF mgr[id] # NoRef
                THEN [loops EXCEPT ![l].pc = "run", ![l].conv = mgr[id]]
                ELSE [loops EXCEPT ![l].pc = "lock"]
    /\ UNCHANGED <<agents, agentConn, agentPump, hubUserVars, cacheVars, dbVars, now,
                   sync, panicked, trace, chat, conv, mgr, convs>>
    /\ UNCHANGED pair

\* GetOrCreate under the write lock, had the map not been looked at again.
LoopCreate_NoDoubleCheck(l) ==
    /\ Running
    /\ loops[l].pc = "lock"
    /\ LET id == getConversationID(userConn[loops[l].uc].UserID, loops[l].agentToken) IN
       /\ convs' = [convs EXCEPT ![NewRef] = NewConversation(id)]
       /\ mgr' = [mgr EXCEPT ![id] = NewRef]
       /\ loops' = [loops EXCEPT ![l].pc = "run", ![l].conv = NewRef]
    /\ UNCHANGED <<agents, agentConn, agentPump, hubUserVars, cacheVars, dbVars, now,
                   sync, panicked, trace, chat, conv>>
    /\ UNCHANGED pair

\* GetOrCreate under the write lock: the map is looked at again, and a new
\* conversation is made and stored when the key is still not there.
LoopCreate(l) ==
    /\ Running
    /\ loops[l].pc = "lock"
    /\ LET id == getConversationID(userConn[loops[l].uc].UserID, loops[l].agentToken) IN
       IF mgr[id] # NoRef
       THEN /\ loops' = [loops EXCEPT ![l].pc = "run", ![l].conv = mgr[id]]
            /\ UNCHANGED <<mgr, convs>>
       ELSE /\ convs' = [convs EXCEPT ![NewRef] = NewConversation(id)]
            /\ mgr' = [mgr EXCEPT ![id] = NewRef]
            /\ loops' = [loops EXCEPT ![l].pc = "run", ![l].conv = NewRef]
    /\ UNCHANGED <<agents, agentConn, agentPump, hubUserVars, cacheVars, dbVars, now,
                   sync, panicked, trace, chat, conv>>
    /\ UNCHANGED pair

\* handleUserMessage, case "clear_conversation": GetUserViewingAgent, and with
\* an agent selected ConversationManager.Delete, delete(m.conversations, id),
\* and the answer to the user.
UserClearConversation(h) ==
    /\ Running
    /\ userPump[h].rd = "read"
    /\ LET agentToken == GetUserViewingAgent(userConn[h].UserID) IN
       IF agentToken # NoToken
       THEN /\ mgr' = [mgr EXCEPT ![getConversationID(userConn[h].UserID, agentToken)] = NoRef]
            /\ userPump' = [userPump EXCEPT ![h].rd = "send",
                                ![h].out = ChatResponse("system", "cleared", "", <<>>)]
       ELSE UNCHANGED <<mgr, userPump>>
    /\ UNCHANGED <<agents, agentConn, agentPump, users, userViewingAgent, userConn,
                   cacheVars, dbVars, now, sync, panicked, trace, chat, conv, convs,
                   loops, pair>>

\* conv.AddMessage(...): the message carries the goroutine that added it.
LoopAddMessage(l) ==
    /\ Running
    /\ loops[l].pc = "run"
    /\ "add" \notin loops[l].did
    /\ convs' = [convs EXCEPT ![loops[l].conv].Messages = Append(@, l)]
    /\ loops' = [loops EXCEPT ![l].did = @ \cup {"add"}]
    /\ UNCHANGED <<agents, agentConn, agentPump, hubUserVars, cacheVars, dbVars, now,
                   sync, panicked, trace, chat, conv, mgr>>
    /\ UNCHANGED pair

\* AgentProxy.SendAction: relay.GlobalHub.SendToAgent(p.agentToken, ...)
LoopSendAction(l) ==
    /\ Running
    /\ loops[l].pc = "run"
    /\ "act" \notin loops[l].did
    /\ SendToAgent(loops[l].agentToken, Msg("click_xy", l))
    /\ loops' = [loops EXCEPT ![l].did = @ \cup {"act"}]
    /\ UNCHANGED <<agents, agentPump, hubUserVars, cacheVars, dbVars, now,
                   sync, trace, chat, conv, mgr, convs>>
    /\ UNCHANGED pair

\* sendChatResponse / sendChatError: uc.Send <- resp
LoopSendResponse(l) ==
    /\ Running
    /\ loops[l].pc = "run"
    /\ "resp" \notin loops[l].did
    /\ IF userConn[loops[l].uc].closed
       THEN /\ panicked' = "send on closed channel"
            /\ UNCHANGED <<userConn, loops>>
       ELSE /\ CanEnqueue(userConn[loops[l].uc])
            /\ userConn' = [userConn EXCEPT
                               ![loops[l].uc].Send =
                                   Append(@, ChatResponse("assistant", l, "", <<>>))]
            /\ loops' = [loops EXCEPT ![l].did = @ \cup {"resp"}]
            /\ UNCHANGED panicked
    /\ UNCHANGED <<agents, agentConn, agentPump, users, userViewingAgent, userPump,
                   cacheVars, dbVars, now, sync, trace, chat, conv, mgr, convs>>
    /\ UNCHANGED pair

\* handleChatMessage returns.
LoopReturn(l) ==
    /\ Running
    /\ loops[l].pc = "run"
    /\ loops' = [loops EXCEPT ![l].pc = "done"]
    /\ UNCHANGED <<agents, agentConn, agentPump, hubUserVars, cacheVars, dbVars, now,
                   sync, panicked, trace, chat, conv, mgr, convs>>
    /\ UNCHANGED pair

\* ------------------------------------------------------------ HandlePair
\* The codes a pairing request can carry: those of the table and one more.
RequestCodes == Codes \cup {"000000"}

IdlePair == [pc |-> "idle", userID |-> NoUser, Code |-> "", agentToken |-> NoToken,
             Message |-> ""]

\* HandlePair up to the answer of ValidatePairingCode: GetUserID gave userID
\* (0 without a session), the body gave code.
HandlePair(userID, code) ==
    /\ Running
    /\ pair.pc \in {"idle", "done"}
    /\ LET p == [IdlePair EXCEPT !.userID = userID, !.Code = code] IN
       pair' = IF userID = 0
               THEN [p EXCEPT !.pc = "done", !.Message = "Unauthorized"]
               ELSE IF ValidatePairingCode(code) = NoToken
               THEN [p EXCEPT !.pc = "done", !.Message = "Invalid or expired pairing code"]
               ELSE [p EXCEPT !.pc = "pair", !.agentToken = ValidatePairingCode(code)]
    /\ UNCHANGED <<agents, agentConn, agentPump, hubUserVars, cacheVars, dbVars, now,
                   sync, panicked, trace, chat, conv, mgr, convs, loops>>

\* models.PairAgent: INSERT INTO agents, where agent_token is UNIQUE.
PairAgent ==
    /\ Running
    /\ pair.pc = "pair"
    /\ IF dbAgents[pair.agentToken] # NoUser
       THEN /\ pair' = [pair EXCEPT !.pc = "done", !.Message = "Failed to pair agent"]
            /\ UNCHANGED dbAgents
       ELSE /\ dbAgents' = [dbAgents EXCEPT ![pair.agentToken] = pair.userID]
            /\ pair' = [pair EXCEPT !.pc = "delete"]
    /\ UNCHANGED <<agents, agentConn, agentPump, hubUserVars, cacheVars, pairingCodes,
                   codeExpires, now, sync, panicked, trace, chat, conv, mgr, convs, loops>>

\* models.DeletePairingCode(req.Code)
DeletePairingCode ==
    /\ Running
    /\ pair.pc = "delete"
    /\ pairingCodes' = [pairingCodes EXCEPT ![pair.Code] = NoToken]
    /\ codeExpires' = [codeExpires EXCEPT ![pair.Code] = 0]
    /\ pair' = [pair EXCEPT !.pc = "update"]
    /\ UNCHANGED <<agents, agentConn, agentPump, hubUserVars, cacheVars, dbAgents, now,
                   sync, panicked, trace, chat, conv, mgr, convs, loops>>

\* HandlePair, had the hub been left as it is until the agent connects again.
UpdateAgentUserID_AtReconnect ==
    /\ Running
    /\ pair.pc = "update"
    /\ pair' = [pair EXCEPT !.pc = "notify"]
    /\ UNCHANGED <<agents, agentConn, agentPump, hubUserVars, cacheVars, dbVars, now,
                   sync, panicked, trace, chat, conv, mgr, convs, loops>>

\* relay.GlobalHub.UpdateAgentUserID(agentToken, userID)
UpdateAgentUserID ==
    /\ Running
    /\ pair.pc = "update"
    /\ agentConn' = IF agents[pair.agentToken] # NoConn
                    THEN [agentConn EXCEPT ![agents[pair.agentToken]].UserID = pair.userID]
                    ELSE agentConn
    /\ pair' = [pair EXCEPT !.pc = "notify"]
    /\ UNCHANGED <<agents, agentPump, hubUserVars, cacheVars, dbVars, now,
                   sync, panicked, trace, chat, conv, mgr, convs, loops>>

\* relay.GlobalHub.SendToAgent(agentToken, notifyMsg), then Success: true.
PairNotify ==
    /\ Running
    /\ pair.pc = "notify"
    /\ SendToAgent(pair.agentToken, Msg("paired", pair.userID))
    /\ pair' = [pair EXCEPT !.pc = "done", !.Message = "ok"]
    /\ UNCHANGED <<agents, agentPump, hubUserVars, cacheVars, dbVars, now,
                   sync, trace, chat, conv, mgr, convs, loops>>

\* cleanupExpiredCodes: DELETE FROM pairing_codes WHERE expires_at < datetime('now')
CleanupExpiredCodes ==
    /\ Running
    /\ \E k \in Codes : pairingCodes[k] # NoToken /\ codeExpires[k] < now
    /\ pairingCodes' = [k \in Codes |-> IF codeExpires[k] < now THEN NoToken
                                        ELSE pairingCodes[k]]
    /\ codeExpires' = [k \in Codes |-> IF codeExpires[k] < now THEN 0 ELSE codeExpires[k]]
    /\ UNCHANGED <<agents, agentConn, agentPump, hubUserVars, cacheVars, dbAgents, now,
                   sync, panicked, trace, chatVars>>

\* Time passes.
Tick ==
    /\ Running
    /\ now < MaxTime
    /\ now' = now + 1
    /\ UNCHANGED <<agents, agentConn, agentPump, hubUserVars, cacheVars, dbVars, sync, panicked>>
    /\ UNCHANGED <<trace, chatVars>>

\* HandleAgents, case http.MethodDelete: models.DeleteAgent(userID, req.ID),
\* DELETE FROM agents WHERE id = ? AND user_id = ?.  The row of an agent is
\* named by its token; nothing of the hub is touched.
DeleteAgent(userID, agentToken) ==
    /\ Running
    /\ userID # 0
    /\ dbAgents' = IF dbAgents[agentToken] = userID
                   THEN [dbAgents EXCEPT ![agentToken] = NoUser]
                   ELSE dbAgents
    /\ UNCHANGED <<agents, agentConn, agentPump, hubUserVars, cacheVars, pairingCodes,
                   codeExpires, now, sync, panicked, trace, chatVars>>

\* ---------------------------------------------------------- specification
InitHub ==
    /\ agents = [t \in Tokens |-> NoConn]
    /\ users = [u \in UserIDs |-> {}]
    /\ userViewingAgent = [u \in UserIDs |-> NoToken]
    /\ screenshotCache = [t \in Tokens |-> NoCache]
    /\ screenshotRequests = NoRequests
    /\ agentConn = [c \in AConns |-> FreeAgentConn]
    /\ userConn = [h \in UConns |-> FreeUserConn]
    /\ agentPump = [c \in AConns |-> FreeAgentPump]
    /\ userPump = [h \in UConns |-> FreeUserPump]
    /\ pairingCodes = [k \in Codes |-> NoToken]
    /\ now = 0
    /\ sync = [s \in Syncs |-> IdleSync]
    /\ respChan = [s \in Syncs |-> <<>>]
    /\ panicked = "no"
    /\ chat = IdleChat
    /\ conv = <<>>
    /\ mgr = [id \in ConvKeys |-> NoRef]
    /\ convs = [r \in Refs |-> NoConversation]
    /\ loops = [l \in Loops |-> IdleLoop]
    /\ codeExpires = [k \in Codes |-> 0]
    /\ pair = IdlePair

\* The agents table after the pairings made so far: each agent owned by one user.
Init ==
    /\ InitHub
    /\ dbAgents = [t \in Tokens |-> IF t = <<"a">> THEN 1 ELSE 2]
    /\ trace = NoTrace

\* The agent registry and the routing of user commands to agents: every agent
\* connection, and one user connection that selects an agent and forwards
\* commands to it.
Next ==
    \/ \E c \in AConns, t \in Tokens : HandleAgentWS(c, t)
    \/ \E c \in AConns : AgentReadError(c)
    \/ \E c \in AConns : AgentWritePump(c)
    \/ \E h \in {1}, u \in UserIDs : HandleUserWS(h, u)
    \/ \E h \in {1} : UserReadError(h)
    \/ \E h \in {1}, t \in Tokens : UserConnectAgent(h, t)
    \/ \E h \in {1} : UserAgentStatus(h)
    \/ \E h \in {1} : UserSend(h)
    \/ \E h \in {1} : UserCommand(h)
    \/ \E h \in {1} : UserForward(h)
    \/ \E h \in {1} : UserWritePump(h)

Spec == Init /\ [][Next]_vars

\* The user registry: every user connection, selecting agents.
NextUser ==
    \/ \E h \in UConns, u \in UserIDs : HandleUserWS(h, u)
    \/ \E h \in UConns : UserReadError(h)
    \/ \E h \in UConns : UnregisterUserAgain(h)
    \/ \E h \in UConns, t \in Tokens : UserConnectAgent(h, t)
    \/ \E h \in UConns : UserAgentStatus(h)
    \/ \E h \in UConns : UserSend(h)
    \/ \E h \in UConns : UserWritePump(h)

SpecUser == Init /\ [][NextUser]_vars

\* The cache and RequestScreenshotSync: one agent connection for token "a"
\* and one caller.
NextSync ==
    \/ \E c \in {1}, t \in {<<"a">>} : HandleAgentWS(c, t)
    \/ \E c \in {1} : AgentReadError(c)
    \/ \E c \in {1}, p \in Payloads : AgentScreenshot(c, p)
    \/ \E c \in {1} : AgentBroadcast(c)
    \/ \E c \in {1} : AgentWritePump(c)
    \/ \E s \in {"g1"}, t \in {<<"a">>}, d \in Timeouts : SyncCall(s, t, d)
    \/ \E s \in {"g1"} : SyncRegister(s)
    \/ \E s \in {"g1"} : SyncSend(s)
    \/ \E s \in {"g1"} : SyncReceive(s)
    \/ \E s \in {"g1"} : SyncTimeout(s)
    \/ \E s \in {"g1"} : SyncCleanup(s)
    \/ \E s \in {"g1"} : SyncReturn(s)
    \/ Tick

SpecSync == Init /\ [][NextSync]_vars

\* The same with two concurrent callers, one payload and one timeout.
NextSync2 ==
    \/ \E c \in {1}, t \in {<<"a">>} : HandleAgentWS(c, t)
    \/ \E c \in {1} : AgentReadError(c)
    \/ \E c \in {1}, p \in {"P1"} : AgentScreenshot(c, p)
    \/ \E c \in {1} : AgentBroadcast(c)
    \/ \E c \in {1} : AgentWritePump(c)
    \/ \E s \in Syncs, t \in {<<"a">>}, d \in {1} : SyncCall(s, t, d)
    \/ \E s \in Syncs : SyncRegister(s)
    \/ \E s \in Syncs : SyncSend(s)
    \/ \E s \in Syncs : SyncReceive(s)
    \/ \E s \in Syncs : SyncTimeout(s)
    \/ \E s \in Syncs : SyncCleanup(s)
    \/ \E s \in Syncs : SyncReturn(s)
    \/ Tick

SpecSync2 == Init /\ [][NextSync2]_vars

\* Broadcasts of agent messages to the viewing user: one agent connection, of
\* an agent that is unpaired or owned by user 1, and two user connections.
InitCast ==
    /\ InitHub
    /\ dbAgents \in [Tokens -> {NoUser, 1}]
    /\ trace = NoTrace

NextCast ==
    \/ \E c \in {1}, t \in Tokens : HandleAgentWS(c, t)
    \/ \E c \in {1} : AgentReadError(c)
    \/ \E c \in {1}, p \in {"P1"} : AgentScreenshot(c, p)
    \/ \E c \in {1} : AgentBroadcast(c)
    \/ \E h \in {1, 2}, u \in UserIDs : HandleUserWS(h, u)
    \/ \E h \in {1, 2} : UserReadError(h)
    \/ \E h \in {1, 2}, t \in Tokens : UserConnectAgent(h, t)
    \/ \E h \in {1, 2} : UserAgentStatus(h)
    \/ \E h \in {1, 2} : UserSend(h)
    \/ \E h \in {1, 2} : UserWritePump(h)

SpecCast == InitCast /\ [][NextCast]_vars

\* The path of an agent's messages to a viewer, with both transports recorded:
\* one agent connection and one user connection.
InitOrder ==
    /\ InitHub
    /\ dbAgents = [t \in Tokens |-> IF t = <<"a">> THEN 1 ELSE 2]
    /\ trace = [NoTrace EXCEPT !.on = TRUE]

NextOrder ==
    \/ \E c \in {1}, t \in {<<"a">>} : HandleAgentWS(c, t)
    \/ \E c \in {1} : AgentReadError(c)
    \/ \E c \in {1}, p \in Payloads : Len(trace.sent) < MaxSent /\ AgentScreenshot(c, p)
    \/ \E c \in {1} : AgentBroadcast(c)
    \/ \E h \in {1}, u \in {1} : HandleUserWS(h, u)
    \/ \E h \in {1} : UserReadError(h)
    \/ \E h \in {1}, t \in Tokens : UserConnectAgent(h, t)
    \/ \E h \in {1} : UserAgentStatus(h)
    \/ \E h \in {1} : UserSend(h)
    \/ \E h \in {1} : UserWritePump(h)

SpecOrder == InitOrder /\ [][NextOrder]_vars

\* One chat message of a user that stays connected, answered by the LLM with
\* any of Responses, those with tool calls in the first MaxToolRounds
\* iterations only; one agent connection; no request times out.
NextChat ==
    \/ \E c \in {1}, t \in {<<"a">>} : HandleAgentWS(c, t)
    \/ \E c \in {1} : AgentReadError(c)
    \/ \E c \in {1}, p \in {"P1"} : AgentScreenshot(c, p)
    \/ \E c \in {1} : AgentBroadcast(c)
    \/ \E c \in {1} : AgentWritePump(c)
    \/ \E h \in {1}, u \in {1} : HandleUserWS(h, u)
    \/ \E h \in {1}, t \in {<<"a">>} : UserConnectAgent(h, t)
    \/ \E h \in {1} : UserAgentStatus(h)
    \/ \E h \in {1} : UserSend(h)
    \/ \E h \in {1} : UserWritePump(h)
    \/ \E h \in {1} : ChatMessage(h)
    \/ \E h \in {1} : ChatSpawn(h)
    \/ ChatGetScreenshot
    \/ \E s \in {"g1"}, d \in {2} : ChatRequestScreenshot(s, d)
    \/ \E s \in {"g1"} : SyncRegister(s)
    \/ \E s \in {"g1"} : SyncSend(s)
    \/ \E s \in {"g1"} : SyncReceive(s)
    \/ \E s \in {"g1"} : SyncCleanup(s)
    \/ \E s \in {"g1"} : ChatScreenshotReturned(s)
    \/ ChatSend
    \/ \E r \in Responses : (r.ToolCalls # <<>> => chat.i < MaxToolRounds) /\ ChatLLM(r)
    \/ ChatBranch
    \/ ChatTool
    \/ ChatUpdateNew
    \/ ChatResults
    \/ ChatUpdateAfter

SpecChat == Init /\ [][NextChat]_vars

\* The same chat message with the LLM asking for a tool in any number of
\* iterations: it answers with an error, with nothing, or with a call of a
\* tool that does not exist.
LoopResponses ==
    {r \in Responses : r.TextContent = "" /\ r.ToolCalls \in {<<>>, <<ToolCall("t1", "fly", TRUE)>>}}

NextLoop ==
    \/ \E c \in {1}, t \in {<<"a">>} : HandleAgentWS(c, t)
    \/ \E c \in {1} : AgentReadError(c)
    \/ \E c \in {1}, p \in {"P1"} : AgentScreenshot(c, p)
    \/ \E c \in {1} : AgentBroadcast(c)
    \/ \E c \in {1} : AgentWritePump(c)
    \/ \E h \in {1}, u \in {1} : HandleUserWS(h, u)
    \/ \E h \in {1}, t \in {<<"a">>} : UserConnectAgent(h, t)
    \/ \E h \in {1} : UserAgentStatus(h)
    \/ \E h \in {1} : UserSend(h)
    \/ \E h \in {1} : UserWritePump(h)
    \/ \E h \in {1} : ChatMessage(h)
    \/ \E h \in {1} : ChatSpawn(h)
    \/ ChatGetScreenshot
    \/ \E s \in {"g1"}, d \in {2} : ChatRequestScreenshot(s, d)
    \/ \E s \in {"g1"} : SyncRegister(s)
    \/ \E s \in {"g1"} : SyncSend(s)
    \/ \E s \in {"g1"} : SyncReceive(s)
    \/ \E s \in {"g1"} : SyncCleanup(s)
    \/ \E s \in {"g1"} : ChatScreenshotReturned(s)
    \/ ChatSend
    \/ \E r \in LoopResponses : ChatLLM(r)
    \/ ChatBranch
    \/ ChatTool
    \/ ChatResults
    \/ ChatUpdateAfter

SpecLoop == Init /\ [][NextLoop]_vars

\* The same chat message with the LLM asking for two clicks in one response, in
\* up to MaxToolRounds + 1 iterations.
SeqResponses ==
    {r \in Responses : r.TextContent = "" /\ r.ToolCalls = <<>>} \cup
    {[err |-> FALSE, TextContent |-> "",
      ToolCalls |-> <<ToolCall("t1", "click", TRUE), ToolCall("t2", "click", TRUE)>>]}

NextSeq ==
    \/ \E c \in {1}, t \in {<<"a">>} : HandleAgentWS(c, t)
    \/ \E c \in {1} : AgentReadError(c)
    \/ \E c \in {1}, p \in {"P1"} : AgentScreenshot(c, p)
    \/ \E c \in {1} : AgentBroadcast(c)
    \/ \E c \in {1} : AgentWritePump(c)
    \/ \E h \in {1}, u \in {1} : HandleUserWS(h, u)
    \/ \E h \in {1}, t \in {<<"a">>} : UserConnectAgent(h, t)
    \/ \E h \in {1} : UserAgentStatus(h)
    \/ \E h \in {1} : UserSend(h)
    \/ \E h \in {1} : UserWritePump(h)
    \/ \E h \in {1} : ChatMessage(h)
    \/ \E h \in {1} : ChatSpawn(h)
    \/ ChatGetScreenshot
    \/ \E s \in {"g1"}, d \in {2} : ChatRequestScreenshot(s, d)
    \/ \E s \in {"g1"} : SyncRegister(s)
    \/ \E s \in {"g1"} : SyncSend(s)
    \/ \E s \in {"g1"} : SyncReceive(s)
    \/ \E s \in {"g1"} : SyncCleanup(s)
    \/ \E s \in {"g1"} : ChatScreenshotReturned(s)
    \/ ChatSend
    \/ \E r \in SeqResponses : (r.ToolCalls # <<>> => chat.i < MaxToolRounds + 1) /\ ChatLLM(r)
    \/ ChatBranch
    \/ ChatTool
    \/ ChatResults
    \/ ChatUpdateAfter

SpecSeq == Init /\ [][NextSeq]_vars

\* The conversation on its own.  Its messages are the user's text, the
\* assistant's text, and for each of two tool-call ids the assistant message with the call and the message
\* with its result.
ToolUseMsg(id) == CreateAssistantToolUseMessage("", <<ToolCall(id, "click", TRUE)>>)
ToolResultMsg(id) == CreateToolResultMessage(<<ToolResult(id, "text", FALSE)>>)
ConvIDs == {"t1", "t2"}
ConvMsgs ==
    {CreateTextMessage("user", "M"), CreateTextMessage("assistant", "T")}
        \cup {ToolUseMsg(id) : id \in ConvIDs} \cup {ToolResultMsg(id) : id \in ConvIDs}

InitConv ==
    /\ InitHub
    /\ dbAgents = [t \in Tokens |-> IF t = <<"a">> THEN 1 ELSE 2]
    /\ trace = [NoTrace EXCEPT !.on = TRUE]

\* Any messages are added, in any order; a call of TrimToLastN or of
\* ValidateAndClean is the last thing done.
NextConv ==
    \/ \E msg \in ConvMsgs : trace.call = <<>> /\ Len(conv) < MaxHist /\ ConvAddMessage(msg)
    \/ \E n \in 0..MaxHist : trace.call = <<>> /\ ConvTrimToLastN(n)
    \/ trace.call = <<>> /\ ConvClean

SpecConv == InitConv /\ [][NextConv]_vars

\* The ids of the blocks of one type in a message.
BlockIDs(msg, t) ==
    {IF t = "tool_use" THEN msg.Content[n].ID ELSE msg.Content[n].ToolUseID :
        n \in {k \in 1..Len(msg.Content) : msg.Content[k].Type = t}}
\* id is the id of a call that some message of the list holds, or of a result.
InList(messages, t, id) ==
    \E n \in 1..Len(messages) : HasBlock(messages[n], t) /\ id \in BlockIDs(messages[n], t)

\* The messages handleChatMessage goroutines add to one conversation: a tool-use
\* message carries ids the LLM has not given before, and the message with the
\* results of a call is added once, after the message with the call
\* (websocket.go 565, 598); two goroutines started by two chat messages of one
\* user for one agent add to the same conversation.
AddedByLoops(msg) ==
    /\ HasToolUse(msg) => \A id \in BlockIDs(msg, "tool_use") : ~InList(conv, "tool_use", id)
    /\ HasToolResult(msg) =>
            \A id \in BlockIDs(msg, "tool_result") :
                /\ InList(conv, "tool_use", id)
                /\ ~InList(conv, "tool_result", id)
    /\ conv = <<>> => msg = CreateTextMessage("user", "M")

NextTurns ==
    \/ \E msg \in ConvMsgs :
            /\ trace.call = <<>>
            /\ Len(conv) < MaxHist
            /\ AddedByLoops(msg)
            /\ ConvAddMessage(msg)
    \/ trace.call = <<>> /\ ConvClean

SpecTurns == InitConv /\ [][NextTurns]_vars

\* The same chat message with the LLM asking for one type_text, of a text that
\* is a key name as written, a key name in another case, an alias, or none.
TypedTexts ==
    { <<"T", "a", "b">>,
      <<"t", "a", "b">>,
      <<"t", "A", "b">>,
      <<"E", "n", "t", "e", "r">>,
      <<"E", "S", "C">>,
      <<"A", "r", "r", "o", "w", "U", "p">>,
      <<"a", "r", "r", "o", "w", "u", "p">>,
      <<"h", "i">> }
TypeResponses ==
    {r \in Responses : r.TextContent = "" /\ r.ToolCalls = <<>>} \cup
    {[err |-> FALSE, TextContent |-> "", ToolCalls |-> <<TypeText("t1", text)>>] :
        text \in TypedTexts}

NextType ==
    \/ \E c \in {1}, t \in {<<"a">>} : HandleAgentWS(c, t)
    \/ \E c \in {1} : AgentReadError(c)
    \/ \E c \in {1}, p \in {"P1"} : AgentScreenshot(c, p)
    \/ \E c \in {1} : AgentBroadcast(c)
    \/ \E c \in {1} : AgentWritePump(c)
    \/ \E h \in {1}, u \in {1} : HandleUserWS(h, u)
    \/ \E h \in {1}, t \in {<<"a">>} : UserConnectAgent(h, t)
    \/ \E h \in {1} : UserAgentStatus(h)
    \/ \E h \in {1} : UserSend(h)
    \/ \E h \in {1} : UserWritePump(h)
    \/ \E h \in {1} : ChatMessage(h)
    \/ \E h \in {1} : ChatSpawn(h)
    \/ ChatGetScreenshot
    \/ \E s \in {"g1"}, d \in {2} : ChatRequestScreenshot(s, d)
    \/ \E s \in {"g1"} : SyncRegister(s)
    \/ \E s \in {"g1"} : SyncSend(s)
    \/ \E s \in {"g1"} : SyncReceive(s)
    \/ \E s \in {"g1"} : SyncCleanup(s)
    \/ \E s \in {"g1"} : ChatScreenshotReturned(s)
    \/ ChatSend
    \/ \E r \in TypeResponses : (r.ToolCalls # <<>> => chat.i < MaxToolRounds) /\ ChatLLM(r)
    \/ ChatBranch
    \/ ChatTool
    \/ ChatResults
    \/ ChatUpdateAfter

SpecType == Init /\ [][NextType]_vars

\* Two users, two agents and two chat loops side by side, the agents owned
\* by one user or by one each.  A loop that returns before it has made all its
\* calls is seen as one that has not made them yet.
InitShare ==
    /\ InitHub
    /\ dbAgents \in {[t \in Tokens |-> 1], [t \in Tokens |-> IF t = <<"a">> THEN 1 ELSE 2]}
    /\ trace = NoTrace

NextShare ==
    \/ \E c \in {1, 2}, t \in Tokens : (agents[t] = NoConn) /\ HandleAgentWS(c, t)
    \/ \E h \in {1, 2}, u \in UserIDs : (u = h) /\ HandleUserWS(h, u)
    \/ \E h \in {1, 2}, t \in Tokens :
        /\ dbAgents[t] = userConn[h].UserID
        /\ userViewingAgent[userConn[h].UserID] # t
        /\ \E l \in Loops : loops[l].pc = "idle"
        /\ UserConnectAgent(h, t)
    \/ \E h \in {1, 2} : UserAgentStatus(h)
    \/ \E h \in {1, 2} : UserSend(h)
    \/ \E h \in {1, 2} : UserWritePump(h)
    \/ \E h \in {1, 2} : (\E l \in Loops : loops[l].pc = "idle") /\ ChatMessage(h)
    \/ \E l \in Loops, h \in {1, 2} :
        (l = "l2" => loops["l1"].pc # "idle") /\ LoopSpawn(l, h)
    \/ \E l \in Loops : LoopGetOrCreate(l)
    \/ \E l \in Loops : LoopCreate(l)
    \/ \E l \in Loops : LoopAddMessage(l)
    \/ \E l \in Loops : LoopSendAction(l)
    \/ \E l \in Loops : LoopSendResponse(l)
    \/ \E l \in Loops : (loops[l].did = {"add", "act", "resp"}) /\ LoopReturn(l)

SpecShare == InitShare /\ [][NextShare]_vars

\* Pairing: unpaired agents ask for codes, the clock runs, and pairing
\* requests arrive with and without a session, with codes of the table and
\* with another one.
InitPair ==
    /\ InitHub
    /\ dbAgents = [t \in Tokens |-> NoUser]
    /\ trace = NoTrace

NextPair ==
    \/ \E c \in {1, 2}, t \in Tokens : (agents[t] = NoConn) /\ HandleAgentWS(c, t)
    \/ \E c \in {1, 2}, code \in Codes : AgentRequestPairingCode(c, code)
    \/ \E c \in {1, 2} : AgentSendPairingCode(c)
    \/ \E c \in {1, 2} : AgentWritePump(c)
    \/ Tick
    \/ \E u \in {0, 1}, code \in RequestCodes : HandlePair(u, code)
    \/ PairAgent
    \/ DeletePairingCode
    \/ UpdateAgentUserID
    \/ PairNotify
    \/ CleanupExpiredCodes

SpecPair == InitPair /\ [][NextPair]_vars

\* One chat message whose user connection can go away at any time.
NextGone ==
    \/ \E c \in {1}, t \in {<<"a">>} : HandleAgentWS(c, t)
    \/ \E c \in {1} : AgentReadError(c)
    \/ \E c \in {1}, p \in {"P1"} : AgentScreenshot(c, p)
    \/ \E c \in {1} : AgentBroadcast(c)
    \/ \E c \in {1} : AgentWritePump(c)
    \/ \E h \in {1}, u \in {1} : HandleUserWS(h, u)
    \/ \E h \in {1}, t \in {<<"a">>} : UserConnectAgent(h, t)
    \/ \E h \in {1} : UserAgentStatus(h)
    \/ \E h \in {1} : UserSend(h)
    \/ \E h \in {1} : UserWritePump(h)
    \/ \E h \in {1} : ChatMessage(h)
    \/ \E h \in {1} : ChatSpawn(h)
    \/ ChatGetScreenshot
    \/ \E s \in {"g1"}, d \in {2} : ChatRequestScreenshot(s, d)
    \/ \E s \in {"g1"} : SyncRegister(s)
    \/ \E s \in {"g1"} : SyncSend(s)
    \/ \E s \in {"g1"} : SyncReceive(s)
    \/ \E s \in {"g1"} : SyncCleanup(s)
    \/ \E s \in {"g1"} : ChatScreenshotReturned(s)
    \/ ChatSend
    \/ \E r \in Responses : (r.ToolCalls # <<>> => chat.i < MaxToolRounds) /\ ChatLLM(r)
    \/ ChatBranch
    \/ ChatTool
    \/ ChatUpdateNew
    \/ ChatResults
    \/ ChatUpdateAfter
    \/ \E h \in {1} : UserReadError(h)

SpecGone == Init /\ [][NextGone]_vars

\* Agents and users register, unregister and have their messages handled:
\* one agent token over two connections, one user over two, and the agent
\* asking for pairing codes.
NextClosed ==
    \/ \E c \in {1, 2}, t \in {<<"a">>} : HandleAgentWS(c, t)
    \/ \E c \in {1, 2} : AgentReadError(c)
    \/ \E c \in {1, 2}, code \in Codes : AgentRequestPairingCode(c, code)
    \/ \E c \in {1, 2} : AgentSendPairingCode(c)
    \/ \E c \in {1, 2} : AgentWritePump(c)
    \/ \E c \in {1, 2} : AgentWriteExit(c)
    \/ \E h \in {1, 2}, u \in {1} : HandleUserWS(h, u)
    \/ \E h \in {1, 2} : UserReadError(h)
    \/ \E h \in {1, 2}, t \in {<<"a">>} : UserConnectAgent(h, t)
    \/ \E h \in {1, 2} : UserAgentStatus(h)
    \/ \E h \in {1, 2} : UserSend(h)
    \/ \E h \in {1, 2} : UserWritePump(h)

SpecClosed == Init /\ [][NextClosed]_vars

\* RequestScreenshotSync with its timer: two callers with one call each, the
\* second made while the first waits, and one agent connection.
\* The clock does not pass the deadline of a call that waits (the timer of
\* time.After fires at the deadline), and its last reading is kept beyond the
\* deadline of every call that is about to wait.
TimersAllowTick ==
    /\ \A s \in Syncs : sync[s].pc = "wait" => now < sync[s].deadline
    /\ \A s \in Syncs : sync[s].pc \in {"register", "send"} => now + sync[s].timeout < MaxTime

NextWait ==
    \/ \E c \in {1}, t \in {<<"a">>} : HandleAgentWS(c, t)
    \/ \E c \in {1} : AgentReadError(c)
    \/ \E c \in {1}, p \in {"P1"} : AgentScreenshot(c, p)
    \/ \E c \in {1} : AgentBroadcast(c)
    \/ \E c \in {1} : AgentWritePump(c)
    \/ \E s \in Syncs, t \in {<<"a">>}, d \in {1} :
        /\ now + d <= MaxTime
        /\ s = "g2" => sync["g1"].pc = "wait"
        /\ SyncCall(s, t, d)
    \/ \E s \in Syncs : SyncRegister(s)
    \/ \E s \in Syncs : SyncSend(s)
    \/ \E s \in Syncs : SyncReceive(s)
    \/ \E s \in Syncs : SyncTimeout(s)
    \/ \E s \in Syncs : SyncCleanup(s)
    \/ TimersAllowTick /\ Tick

\* The goroutine of a call is scheduled at each of its steps, and time passes:
\* no behaviour has infinitely many steps within one reading of the clock.
SpecWait ==
    /\ Init
    /\ [][NextWait]_vars
    /\ \A s \in Syncs : /\ WF_vars(SyncRegister(s))
                        /\ WF_vars(SyncSend(s))
                        /\ WF_vars(SyncReceive(s))
                        /\ WF_vars(SyncTimeout(s))
                        /\ WF_vars(SyncCleanup(s))
    /\ SF_vars(TimersAllowTick /\ Tick)

\* Connections come and go: one agent token over two connections, one user
\* over two.  A writer whose transport is closed
\* or whose queue is closed and drained gets to return.
NextEnds ==
    \/ \E c \in {1, 2}, t \in {<<"a">>} : HandleAgentWS(c, t)
    \/ \E c \in {1, 2} : AgentReadError(c)
    \/ \E c \in {1, 2} : AgentWriteExit(c)
    \/ \E h \in {1, 2}, u \in {1} : HandleUserWS(h, u)
    \/ \E h \in {1, 2} : UserReadError(h)
    \/ \E h \in {1, 2} : UserWriteExit(h)

SpecEnds ==
    /\ Init
    /\ [][NextEnds]_vars
    /\ \A c \in {1, 2} : WF_vars(AgentWriteExit(c))
    /\ \A h \in {1, 2} : WF_vars(UserWriteExit(h))

\* One chat message with the LLM answering with no call, with take_screenshot,
\* with a click, or with take_screenshot followed by a click; time is let pass
\* while RequestScreenshotSync waits.
MixResponses ==
    {[err |-> FALSE, TextContent |-> "", ToolCalls |-> l] :
        l \in { <<>>,
                <<ToolCall("t1", "take_screenshot", TRUE)>>,
                <<ToolCall("t1", "click", TRUE)>>,
                <<ToolCall("t1", "take_screenshot", TRUE), ToolCall("t2", "click", TRUE)>> }}

NextMix ==
    \/ \E c \in {1}, t \in {<<"a">>} : HandleAgentWS(c, t)
    \/ \E c \in {1} : AgentReadError(c)
    \/ \E c \in {1}, p \in {"P1"} : AgentScreenshot(c, p)
    \/ \E c \in {1} : AgentWritePump(c)
    \/ \E h \in {1}, u \in {1} : HandleUserWS(h, u)
    \/ \E h \in {1}, t \in {<<"a">>} : UserConnectAgent(h, t)
    \/ \E h \in {1} : UserAgentStatus(h)
    \/ \E h \in {1} : UserSend(h)
    \/ \E h \in {1} : UserWritePump(h)
    \/ \E h \in {1} : ChatMessage(h)
    \/ \E h \in {1} : ChatSpawn(h)
    \/ ChatGetScreenshot
    \/ \E s \in {"g1"}, d \in {2} : ChatRequestScreenshot(s, d)
    \/ \E s \in {"g1"} : SyncRegister(s)
    \/ \E s \in {"g1"} : SyncSend(s)
    \/ \E s \in {"g1"} : SyncReceive(s)
    \/ \E s \in {"g1"} : SyncTimeout(s)
    \/ \E s \in {"g1"} : SyncCleanup(s)
    \/ \E s \in {"g1"} : ChatScreenshotReturned(s)
    \/ ChatSend
    \/ \E r \in MixResponses : (r.ToolCalls # <<>> => chat.i < MaxToolRounds) /\ ChatLLM(r)
    \/ ChatBranch
    \/ ChatTool
    \/ ChatUpdateNew
    \/ ChatResults
    \/ ChatUpdateAfter
    \/ (\E s \in {"g1"} : sync[s].pc = "wait") /\ Tick

SpecMix == Init /\ [][NextMix]_vars

\* Two agents, with the tokens "a" and "a:b", each sending a payload of its
\* own, and one caller of RequestScreenshotSync for the agent "a:b".
NextCross ==
    \/ \E c \in {1}, t \in {<<"a">>} : HandleAgentWS(c, t)
    \/ \E c \in {2}, t \in {<<"a", ":", "b">>} : HandleAgentWS(c, t)
    \/ \E c \in {1}, p \in {"P1"} : AgentScreenshot(c, p)
    \/ \E c \in {2}, p \in {"P2"} : AgentScreenshot(c, p)
    \/ \E c \in {1, 2} : AgentBroadcast(c)
    \/ \E c \in {1, 2} : AgentWritePump(c)
    \/ \E s \in {"g1"}, t \in {<<"a", ":", "b">>}, d \in {1} : SyncCall(s, t, d)
    \/ \E s \in {"g1"} : SyncRegister(s)
    \/ \E s \in {"g1"} : SyncSend(s)
    \/ \E s \in {"g1"} : SyncReceive(s)
    \/ \E s \in {"g1"} : SyncTimeout(s)
    \/ \E s \in {"g1"} : SyncCleanup(s)
    \/ \E s \in {"g1"} : SyncReturn(s)
    \/ Tick

SpecCross == Init /\ [][NextCross]_vars

\* A user who owns the agent "a" selects it, sends commands to it and gets its
\* state, and deletes it.
NextOwn ==
    \/ \E c \in {1}, t \in {<<"a">>} : HandleAgentWS(c, t)
    \/ \E c \in {1} : AgentReadError(c)
    \/ \E c \in {1} : AgentDomUpdate(c)
    \/ \E c \in {1} : AgentWritePump(c)
    \/ \E h \in {1}, u \in {1} : HandleUserWS(h, u)
    \/ \E h \in {1} : UserReadError(h)
    \/ \E h \in {1}, t \in {<<"a">>} : UserConnectAgent(h, t)
    \/ \E h \in {1} : UserAgentStatus(h)
    \/ \E h \in {1} : UserSend(h)
    \/ \E h \in {1} : UserWritePump(h)
    \/ \E h \in {1} : UserCommand(h)
    \/ \E h \in {1} : UserForward(h)
    \/ \E u \in {1}, t \in {<<"a">>} : DeleteAgent(u, t)

SpecOwn == Init /\ [][NextOwn]_vars

\* An unpaired agent that asks for a pairing code, the user who pairs it with
\* the code, selects it and gets its screenshots; the agent may go offline and
\* come back on a second connection.
NextPaired ==
    \/ \E c \in {1, 2}, t \in {<<"a">>} : (agents[t] = NoConn) /\ HandleAgentWS(c, t)
    \/ \E c \in {1} : AgentReadError(c)
    \/ \E c \in {1, 2}, code \in Codes : AgentRequestPairingCode(c, code)
    \/ \E c \in {1, 2} : AgentSendPairingCode(c)
    \/ \E c \in {1, 2}, p \in {"P1"} : AgentScreenshot(c, p)
    \/ \E c \in {1, 2} : AgentBroadcast(c)
    \/ \E c \in {1, 2} : AgentWritePump(c)
    \/ \E u \in {1}, code \in Codes : HandlePair(u, code)
    \/ PairAgent
    \/ DeletePairingCode
    \/ UpdateAgentUserID
    \/ PairNotify
    \/ \E h \in {1}, u \in {1} : HandleUserWS(h, u)
    \/ \E h \in {1}, t \in {<<"a">>} : UserConnectAgent(h, t)
    \/ \E h \in {1} : UserAgentStatus(h)
    \/ \E h \in {1} : UserSend(h)
    \/ \E h \in {1} : UserWritePump(h)

SpecPaired == InitPair /\ [][NextPaired]_vars

\* One user with one agent selected sends two chat messages, whose loops run
\* side by side on one conversation key, and clears the conversation.
NextClear ==
    \/ \E c \in {1}, t \in {<<"a">>} : HandleAgentWS(c, t)
    \/ \E h \in {1}, u \in {1} : HandleUserWS(h, u)
    \/ \E h \in {1}, t \in {<<"a">>} :
        /\ dbAgents[t] = userConn[h].UserID
        /\ userViewingAgent[userConn[h].UserID] # t
        /\ UserConnectAgent(h, t)
    \/ \E h \in {1} : UserAgentStatus(h)
    \/ \E h \in {1} : UserSend(h)
    \/ \E h \in {1} : UserWritePump(h)
    \/ \E h \in {1} : (\E l \in Loops : loops[l].pc = "idle") /\ ChatMessage(h)
    \/ \E l \in Loops, h \in {1} :
        (l = "l2" => loops["l1"].pc # "idle") /\ LoopSpawn(l, h)
    \/ \E l \in Loops : LoopGetOrCreate(l)
    \/ \E l \in Loops : LoopCreate(l)
    \/ \E l \in Loops : LoopAddMessage(l)
    \/ \E l \in Loops : LoopReturn(l)
    \/ \E h \in {1} : UserClearConversation(h)

SpecClear == Init /\ [][NextClear]_vars

\* ================================================================ claims
ConnsOf(t) == {c \in AConns : agentConn[c].Token = t}
NewestConnOf(t) == {c \in ConnsOf(t) : \A d \in ConnsOf(t) : d <= c}
AgentReadEnds(c) == agentPump[c].rd = "read" /\ agentPump'[c].rd = "exit"
AgentRegisters(c) == agentPump[c].rd = "none" /\ agentPump'[c].rd = "read"
UserReadEnds(h) == userPump[h].rd = "read" /\ userPump'[h].rd = "exit"
ForwardReturns(h) == userPump[h].rd = "forward" /\ userPump'[h].rd # "forward"
CallStarts(s) == sync[s].pc = "idle" /\ sync'[s].pc # "idle"
SendReturns(s) == sync[s].pc = "send" /\ sync'[s].pc # "send"
FreshEntry(t) ==
    /\ screenshotCache[t] # NoCache
    /\ now - screenshotCache[t].UpdatedAt < FreshSeconds

\* C1: RegisterAgent(A) followed by UnregisterAgent(A) leaves A offline and the
\* queue of the connection registered last for A closed: every
\* UnregisterAgent(A) leaves A out of the registry, and whenever A is out of
\* the registry the newest connection made for A has a closed queue.
C1_UnregisterLeavesOffline ==
    [][/\ \A c \in AConns :
            AgentReadEnds(c) => agents'[agentConn[c].Token] = NoConn
       /\ \A t \in Tokens :
            agents'[t] = NoConn => \A c \in NewestConnOf(t)' : agentConn'[c].closed
      ]_vars

C1_Witness ==
    \E c \in AConns :
        /\ agentPump[c].rd = "exit"
        /\ agents[agentConn[c].Token] = NoConn
        /\ agentConn[c].closed
        /\ ConnsOf(agentConn[c].Token) = {c}

\* C2: a registration for a token that is already registered replaces the
\* older connection: the registry maps the token to the new connection, the
\* new queue starts empty, no other queue changes, and a message is only ever
\* enqueued on the connection the registry maps its token to.
C2_NewestConnectionWins ==
    [][\A c \in AConns :
          /\ AgentRegisters(c) =>
                /\ agents'[agentConn'[c].Token] = c
                /\ agentConn'[c].Send = <<>>
                /\ \A d \in AConns \ {c} : agentConn'[d] = agentConn[d]
          /\ Len(agentConn'[c].Send) > Len(agentConn[c].Send) =>
                /\ agents[agentConn[c].Token] = c
                /\ agentConn'[c].Send = Append(agentConn[c].Send, Msg("command", 1))
                   \/ agentConn'[c].Send = Append(agentConn[c].Send, Msg("command", 2))
                /\ \A d \in AConns \ {c} : agentConn'[d] = agentConn[d]
      ]_vars

C2_Witness ==
    \E c1, c2 \in AConns :
        /\ c1 < c2
        /\ agentConn[c2].Token \in Tokens
        /\ agentConn[c1].Token = agentConn[c2].Token
        /\ agents[agentConn[c2].Token] = c2
        /\ agentPump[c1].rd = "read"
        /\ agentConn[c1].Send # <<>>
        /\ agentConn[c2].Send # <<>>

\* C3: UnregisterAgent for a token that is not registered changes no hub
\* state, and no queue is ever closed a second time.
C3_UnregisterIdempotent ==
    [][/\ \A c \in AConns :
            (AgentReadEnds(c) /\ agents[agentConn[c].Token] = NoConn) =>
                UNCHANGED <<agents, agentConn, users, userViewingAgent, userConn,
                            screenshotCache, screenshotRequests, panicked>>
       /\ panicked' # "close of closed channel"
      ]_vars

C3_Witness ==
    \E c1, c2 \in AConns :
        /\ c1 # c2
        /\ agentConn[c1].Token \in Tokens
        /\ agentConn[c1].Token = agentConn[c2].Token
        /\ agents[agentConn[c1].Token] = NoConn
        /\ agentPump[c1].rd = "exit"
        /\ agentPump[c2].rd = "exit"
        /\ panicked = "no"

\* C4: UnregisterUser(h) removes exactly h and closes its queue; every other
\* connection keeps its registration and its queue; the viewing assignment of
\* h's user is cleared exactly when h was the user's last connection; a second
\* UnregisterUser(h) changes nothing.
C4_UnregisterUserExact ==
    [][/\ \A h \in UConns :
            UserReadEnds(h) =>
                LET uid == userConn[h].UserID IN
                /\ users' = [users EXCEPT ![uid] = @ \ {h}]
                /\ userConn'[h] = [userConn[h] EXCEPT !.closed = TRUE]
                /\ ~userConn[h].closed
                /\ \A g \in UConns \ {h} : userConn'[g] = userConn[g]
                /\ userViewingAgent' =
                        IF users[uid] = {h}
                        THEN [userViewingAgent EXCEPT ![uid] = NoToken]
                        ELSE userViewingAgent
       /\ (\A h \in UConns : userPump'[h].rd = userPump[h].rd) =>
                /\ UNCHANGED <<users, userViewingAgent, panicked>>
                /\ \A h \in UConns : userConn'[h].closed = userConn[h].closed
      ]_vars

C4_Witness ==
    \E h, g \in UConns :
        /\ h # g
        /\ userConn[h].UserID = userConn[g].UserID
        /\ userPump[h].rd = "exit"
        /\ userConn[h].closed
        /\ users[userConn[g].UserID] = {g}
        /\ ~userConn[g].closed
        /\ userViewingAgent[userConn[g].UserID] # NoToken

\* C5: SendToAgent for a token that is not registered returns false, returns
\* at once, and enqueues nothing on any queue.
C5_SendToAbsentAgent ==
    [][\A h \in UConns :
          /\ userPump[h].rd = "forward" => ENABLED UserForward(h)
          /\ (ForwardReturns(h) /\ agents[userPump[h].tok] = NoConn) =>
                /\ userPump'[h].fwd = "Failed to send to agent"
                /\ userPump'[h].rd = "read"
                /\ UNCHANGED <<agentConn, userConn>>
      ]_vars

C5_Witness ==
    \E h \in UConns :
        /\ userPump[h].fwd = "Failed to send to agent"
        /\ userPump[h].rd = "read"
        /\ \A c \in AConns : agentPump[c].rd = "none"

\* C6: every enqueue on an outbound queue is non-blocking: no queue holds
\* more than its capacity and no handler is suspended in a send on a full
\* queue.
C6_NoSenderSuspended ==
    /\ \A h \in UConns : Len(userConn[h].Send) <= QueueCap
    /\ \A c \in AConns : Len(agentConn[c].Send) <= QueueCap
    /\ \A h \in UConns :
         ~(userPump[h].rd = "send" /\ ~userConn[h].closed /\ ~CanEnqueue(userConn[h]))
    /\ \A c \in AConns :
         ~(agentPump[c].rd = "send" /\ ~agentConn[c].closed /\ ~CanEnqueue(agentConn[c]))

\* C7: a RequestScreenshotSync that finds the cache entry of its agent younger
\* than 3 seconds returns that entry's payload, registers no pending request
\* and enqueues nothing for the agent.
C7_FreshCacheServed ==
    [][\A s \in Syncs :
          (CallStarts(s) /\ FreshEntry(sync'[s].token)) =>
                /\ sync'[s].pc = "done"
                /\ sync'[s].err = "nil"
                /\ sync'[s].data = screenshotCache[sync'[s].token].Data
                /\ UNCHANGED <<screenshotRequests, agentConn, respChan>>
      ]_vars

C7_Witness ==
    \E s \in Syncs :
        /\ sync[s].pc = "done"
        /\ sync[s].reqID = <<>>
        /\ sync[s].err = "nil"
        /\ sync[s].data = screenshotCache[sync[s].token].Data
        /\ now - screenshotCache[sync[s].token].UpdatedAt = FreshSeconds - 1
        /\ screenshotRequests = NoRequests

\* C8, as claimed: a RequestScreenshotSync called while its agent is not
\* connected never returns a payload; it fails with the not-connected error.
C8_NotConnectedAlwaysFails ==
    [][\A s \in Syncs :
          /\ (CallStarts(s) /\ agents[sync'[s].token] = NoConn) => sync'[s].pc # "done"
          /\ (SendReturns(s) /\ agents[sync[s].token] = NoConn) =>
                sync'[s].err = "agent not connected"
      ]_vars

\* C8, amended: called while its agent is not connected, RequestScreenshotSync
\* returns the cached payload when the cache entry is younger than 3 seconds;
\* otherwise it goes on to send the request, and with the agent still not
\* connected then it fails at once with the not-connected error, never waiting.
C8_NotConnectedFailsUnlessFresh ==
    [][\A s \in Syncs :
          /\ (CallStarts(s) /\ agents[sync'[s].token] = NoConn) =>
                IF FreshEntry(sync'[s].token)
                THEN /\ sync'[s].pc = "done"
                     /\ sync'[s].err = "nil"
                     /\ sync'[s].data = screenshotCache[sync'[s].token].Data
                ELSE sync'[s].pc = "register"
          /\ (SendReturns(s) /\ agents[sync[s].token] = NoConn) =>
                /\ sync'[s].pc = "cleanup"
                /\ sync'[s].err = "agent not connected"
                /\ sync'[s].data = ""
                /\ UNCHANGED <<agentConn, now>>
      ]_vars

C8_Witness ==
    \E s \in Syncs :
        /\ sync[s].pc = "cleanup"
        /\ sync[s].err = "agent not connected"
        /\ agents[sync[s].token] = NoConn
        /\ screenshotCache[sync[s].token] # NoCache

\* C9: a wait that ends by timeout, its slot unfulfilled, returns the cached
\* payload when a cache entry exists, however old, and the timeout error
\* exactly when none exists.
C9_TimeoutFallsBackToCache ==
    [][\A s \in Syncs :
          (sync[s].pc = "wait" /\ sync'[s].pc # "wait" /\ respChan[s] = <<>>) =>
                /\ now >= sync[s].deadline
                /\ sync'[s].pc = "cleanup"
                /\ IF screenshotCache[sync[s].token] # NoCache
                   THEN /\ sync'[s].err = "nil"
                        /\ sync'[s].data = screenshotCache[sync[s].token].Data
                   ELSE /\ sync'[s].err = "screenshot request timed out"
                        /\ sync'[s].data = ""
      ]_vars

\* The cache entry is older than the request: no doorbell rang for it.
C9_Witness ==
    \E s \in Syncs :
        /\ sync[s].pc = "cleanup"
        /\ sync[s].err = "nil"
        /\ sync[s].data = screenshotCache[sync[s].token].Data
        /\ screenshotCache[sync[s].token].UpdatedAt < sync[s].reqID[Len(sync[s].reqID)]
        /\ now - screenshotCache[sync[s].token].UpdatedAt >= FreshSeconds

\* C10: two overlapping RequestScreenshotSync calls for one agent hold
\* distinct request ids, and while a call is registered its own response
\* channel is the one the table keeps under its id.
C10_OwnPendingEntry ==
    /\ \A s1, s2 \in Syncs :
          (/\ s1 # s2
           /\ sync[s1].pc \in {"send", "wait"}
           /\ sync[s2].pc \in {"send", "wait"}) => sync[s1].reqID # sync[s2].reqID
    /\ \A s \in Syncs :
          sync[s].pc \in {"send", "wait"} =>
                /\ sync[s].reqID \in DOMAIN screenshotRequests
                /\ screenshotRequests[sync[s].reqID] = s

ScreenshotRead(c) == agentPump[c].rd = "read" /\ agentPump'[c].rd = "bcast"

BroadcastRuns(c) == agentPump[c].rd = "bcast" /\ agentPump'[c].rd = "read"
\* The owning user of a registered agent: the UserID of its AgentConn.
OwnerOf(t) == agentConn[agents[t]].UserID
ViewingSet(h) == userPump[h].rd = "read" /\ userPump'[h].rd = "online"

\* C12: BroadcastToAgentUsers(token, msg) delivers nothing when the agent has
\* no owning user, and nothing when the owning user's viewing assignment is
\* unset or names another agent.
C12_NonViewingGetsNothing ==
    [][\A c \in AConns :
          (/\ BroadcastRuns(c)
           /\ agents[agentConn[c].Token] # NoConn
           /\ \/ OwnerOf(agentConn[c].Token) = NoUser
              \/ userViewingAgent[OwnerOf(agentConn[c].Token)] # agentConn[c].Token)
          => UNCHANGED userConn
      ]_vars

\* The owner, connected, views the other agent while this one broadcasts.
C12_Witness ==
    \E c \in AConns :
        /\ agentPump[c].rd = "bcast"
        /\ agents[agentConn[c].Token] = c
        /\ OwnerOf(agentConn[c].Token) # NoUser
        /\ users[OwnerOf(agentConn[c].Token)] # {}
        /\ userViewingAgent[OwnerOf(agentConn[c].Token)] \in Tokens \ {agentConn[c].Token}

\* C13: when the owning user of an online agent is viewing it,
\* BroadcastToAgentUsers(token, msg) appends msg once to the queue of every
\* connection of that user that has room, and leaves every other queue as it is.
C13_ViewerGetsOneCopy ==
    [][\A c \in AConns :
          (/\ BroadcastRuns(c)
           /\ agents[agentConn[c].Token] # NoConn
           /\ OwnerOf(agentConn[c].Token) # NoUser
           /\ userViewingAgent[OwnerOf(agentConn[c].Token)] = agentConn[c].Token)
          => /\ panicked' = "no"
             /\ \A h \in UConns :
                  userConn'[h] =
                    IF /\ h \in users[OwnerOf(agentConn[c].Token)]
                       /\ Len(userConn[h].Send) < QueueCap
                    THEN [userConn[h] EXCEPT
                            !.Send = Append(@, Msg("screenshot", agentPump[c].img))]
                    ELSE userConn[h]
      ]_vars

\* Both connections of the viewer hold the message the agent has broadcast.
C13_Witness ==
    \E c \in AConns, h, g \in UConns :
        /\ h < g
        /\ agentPump[c].rd = "read"
        /\ agentConn[c].Token \in Tokens
        /\ agents[agentConn[c].Token] = c
        /\ OwnerOf(agentConn[c].Token) # NoUser
        /\ users[OwnerOf(agentConn[c].Token)] = {h, g}
        /\ userViewingAgent[OwnerOf(agentConn[c].Token)] = agentConn[c].Token
        /\ userConn[h].Send = <<Msg("screenshot", "P1")>>
        /\ userConn[g].Send = <<Msg("screenshot", "P1")>>

\* C14: a user has one viewing assignment, that of the latest
\* SetUserViewingAgent for the user from whichever connection; it changes in
\* no other way than by the unregistration of the user's last connection, and
\* it is empty while the user has no connection.
C14_ViewingLastWriteWins ==
    [][/\ \A h \in UConns :
            ViewingSet(h) =>
                /\ userPump'[h].tok \in Tokens
                /\ userViewingAgent' =
                        [userViewingAgent EXCEPT ![userConn[h].UserID] = userPump'[h].tok]
       /\ \A u \in UserIDs :
            userViewingAgent'[u] # userViewingAgent[u] =>
                \/ \E h \in users[u] : ViewingSet(h)
                \/ \E h \in UConns :
                        /\ UserReadEnds(h)
                        /\ users[u] = {h}
                        /\ userViewingAgent'[u] = NoToken
       /\ \A u \in UserIDs : users'[u] = {} => userViewingAgent'[u] = NoToken
      ]_vars

\* Two connections of one user have each just set a different agent.
C14_Witness ==
    \E h, g \in UConns :
        /\ h # g
        /\ userConn[h].UserID = userConn[g].UserID
        /\ userPump[h].rd = "online"
        /\ userPump[g].rd = "online"
        /\ userPump[h].tok # userPump[g].tok
        /\ userViewingAgent[userConn[h].UserID] = userPump[g].tok

\* a is b with some of its elements left out.
RECURSIVE IsSubsequence(_, _)
IsSubsequence(a, b) ==
    IF a = <<>> THEN TRUE
    ELSE IF b = <<>> THEN FALSE
    ELSE IF Head(a) = Head(b) THEN IsSubsequence(Tail(a), Tail(b))
    ELSE IsSubsequence(a, Tail(b))

ChatSteps == chat' # chat
\* The chat_response messages marked as errors that a step adds to a queue.
ErrorResponseAdded(h) ==
    /\ Len(userConn'[h].Send) > Len(userConn[h].Send)
    /\ userConn'[h].Send[Len(userConn'[h].Send)][1] = "chat_response"
    /\ userConn'[h].Send[Len(userConn'[h].Send)][2].IsError

\* C16: one chat message causes at most 10 LLM calls; the iteration that
\* makes i reach 10 ends the loop, nothing is sent to the user by that step,
\* the goroutine does nothing after it, and the goroutine sends an error
\* chat_response only for an LLM call that failed.
C16_AtMostTenCalls ==
    [][/\ chat'.calls <= MaxIterations
       /\ (chat.i = MaxIterations - 1 /\ chat'.i = MaxIterations) =>
                /\ chat'.pc = "done"
                /\ UNCHANGED userConn
       /\ chat.pc = "done" => UNCHANGED <<chat, conv>>
       /\ \A h \in UConns :
            (ErrorResponseAdded(h) /\ chat.pc # "idle") => chat.resp.err
      ]_vars

\* Ten iterations, each with a tool call, and the loop is over.
C16_Witness ==
    /\ chat.pc = "done"
    /\ chat.i = MaxIterations
    /\ chat.calls = MaxIterations

\* The goroutine holds an LLM response without tool calls.
FinalResponseHeld ==
    /\ chat.calls >= 1
    /\ chat.pc \in {"send", "branch"}
    /\ ~chat.resp.err
    /\ chat.resp.ToolCalls = <<>>

\* C17: with an LLM response that carries no tool calls the goroutine sends
\* nothing to the agent, runs no tool and no screenshot request, makes no
\* further LLM call, adds the assistant text to the conversation exactly when
\* it is not empty, and ends.
C17_NoToolCallsEndsLoop ==
    [][/\ (FinalResponseHeld /\ ChatSteps) =>
                /\ UNCHANGED <<agentConn, sync, screenshotRequests>>
                /\ chat'.calls = chat.calls
                /\ IF chat.pc = "branch"
                   THEN /\ chat'.pc = "done"
                        /\ conv' = IF chat.resp.TextContent # ""
                                   THEN Append(conv, CreateTextMessage("assistant",
                                                                       chat.resp.TextContent))
                                   ELSE conv
                   ELSE /\ chat'.pc = "branch"
                        /\ conv' = conv
       /\ chat.pc = "done" => UNCHANGED <<chat, conv>>
      ]_vars

\* The LLM answered the second call with a text and no tool call.
C17_Witness ==
    /\ chat.pc = "done"
    /\ chat.calls = 2
    /\ conv[Len(conv)] = CreateTextMessage("assistant", "T")

\* C18: with a cached screenshot P for the agent, the user message added to
\* the conversation carries P, a chat_response of role system carrying P is
\* the next thing the goroutine does, it is enqueued on the user's queue, and
\* only then does the goroutine reach the first LLM call.
C18_ScreenshotBeforeLLM ==
    [][/\ (chat.pc = "shot" /\ ChatSteps /\ HasCachedScreenshot(chat.agentToken)) =>
                LET P == screenshotCache[chat.agentToken].Data IN
                /\ conv' = Append(conv, [Role |-> "user",
                                         Content |-> <<[Type |-> "image", Data |-> P],
                                                       [Type |-> "text", Text |-> "M"]>>])
                /\ chat'.pc = "send"
                /\ chat'.out = Msg("chat_response",
                                   [Role |-> "system", Content |-> "", Screenshot |-> P,
                                    Actions |-> <<>>, IsError |-> FALSE])
                /\ chat'.then = "llm"
       /\ (chat.pc = "send" /\ ChatSteps) =>
                /\ userConn'[chat.uc].Send = Append(userConn[chat.uc].Send, chat.out)
                /\ chat.then = "llm" => chat'.pc = "llm"
       /\ chat'.calls > chat.calls => chat.pc = "llm"
       /\ (chat'.pc = "llm" /\ chat.pc # "llm" /\ chat.calls = 0) =>
                \/ chat.pc = "send"
                \/ chat.pc = "sync" /\ sync["g1"].data = ""
      ]_vars

\* The screenshot is in the user's queue and in the conversation; no LLM call
\* has been made.
C18_Witness ==
    /\ chat.pc = "llm"
    /\ chat.calls = 0
    /\ screenshotCache[chat.agentToken].Data = "P1"
    /\ conv = <<CreateImageMessage("user", "M", "P1")>>
    /\ userConn[chat.uc].Send = <<ChatResponse("system", "", "P1", <<>>)>>

\* C19: when an LLM call fails the goroutine's one remaining step is the send
\* of one chat_response marked as an error; it makes no further LLM call,
\* runs no tool and no screenshot request, sends nothing to the agent and adds
\* nothing to the conversation; and it sends an error chat_response for no
\* other reason.
C19_LLMFailureAborts ==
    [][/\ (chat'.resp.err /\ ~chat.resp.err) =>
                /\ chat'.pc = "send"
                /\ chat'.out = ChatErrorResponse("AI error")
                /\ UNCHANGED <<conv, agentConn, userConn, sync, screenshotRequests>>
       /\ (chat.resp.err /\ ChatSteps) =>
                /\ chat.pc = "send"
                /\ userConn' = [userConn EXCEPT ![chat.uc].Send = Append(@, chat.out)]
                /\ chat'.pc = "done"
                /\ chat'.calls = chat.calls
                /\ UNCHANGED <<conv, agentConn, sync, screenshotRequests>>
       /\ chat.pc = "done" => UNCHANGED <<chat, conv>>
       /\ \A h \in UConns :
            (ErrorResponseAdded(h) /\ chat.pc # "idle") => chat.resp.err
      ]_vars

\* The second LLM call failed; its error is the only thing in the queue.
C19_Witness ==
    /\ chat.pc = "done"
    /\ chat.calls = 2
    /\ userConn[chat.uc].Send = <<ChatErrorResponse("AI error")>>

ToolRuns == chat.pc = "tool" /\ ChatSteps /\ chat.resp.ToolCalls[chat.k].Name # "take_screenshot"
\* The call ExecuteTool is given cannot be carried out.
ToolFails ==
    LET tc == chat.resp.ToolCalls[chat.k] IN
    \/ tc.Name \in {"click", "type_text"} /\ ~tc.valid
    \/ tc.Name \in {"click", "type_text"} /\ ~SendToAgentOK(chat.agentToken)
    \/ tc.Name \notin {"click", "type_text", "take_screenshot"}

\* C20: a tool call whose arguments do not parse, whose action cannot be
\* delivered, or whose tool does not exist sends nothing to the agent and
\* gives a result marked as an error with the call's id; the calls after it
\* are still run, one result per call is added to the conversation, and the
\* goroutine ends only on an LLM response without tool calls, on a failed LLM
\* call or at the iteration cap.
C20_ToolFailureContinues ==
    [][/\ ToolRuns =>
                LET tc == chat.resp.ToolCalls[chat.k] IN
                /\ chat'.results = Append(chat.results,
                                          ToolResult(tc.ID, "text", ToolFails))
                /\ ToolFails => UNCHANGED agentConn
                /\ chat.k < Len(chat.resp.ToolCalls) =>
                        /\ chat'.pc = "tool"
                        /\ chat'.k = chat.k + 1
                /\ chat'.pc # "done"
       /\ (chat.pc = "results" /\ ChatSteps) =>
                /\ Len(chat.results) = Len(chat.resp.ToolCalls)
                /\ \A n \in 1..Len(chat.results) :
                        chat.results[n].ToolUseID = chat.resp.ToolCalls[n].ID
                /\ conv' = Append(conv, CreateToolResultMessage(chat.results))
       /\ (chat'.pc = "done" /\ chat.pc # "done") =>
                \/ chat.pc = "branch" /\ chat.resp.ToolCalls = <<>>
                \/ chat.resp.err
                \/ chat'.i = MaxIterations
       /\ \A h \in UConns :
            (ErrorResponseAdded(h) /\ chat.pc # "idle") => chat.resp.err
      ]_vars

\* The first click could not be parsed, the second was delivered; the results
\* are in the conversation and the loop is at its next LLM call.
C20_Witness ==
    /\ chat.pc = "llm"
    /\ chat.i = 1
    /\ \E n \in 1..Len(conv) :
            conv[n] = CreateToolResultMessage(<<ToolResult("t1", "text", TRUE),
                                                ToolResult("t2", "text", FALSE)>>)
    /\ \E c \in AConns : agentConn[c].Send = <<Msg("click_xy", "t2")>>

\* The action ExecuteTool sends for a call, or NoMsg when it sends none.
ActionOf(tc) ==
    IF tc.Name = "click" /\ tc.valid THEN Msg("click_xy", tc.ID)
    ELSE IF tc.Name = "type_text" /\ tc.valid
    THEN (IF tc.Text \in keyNames THEN Msg("key", tc.Text) ELSE Msg("input", tc.Text))
    ELSE NoMsg
\* What the agent's registered connection has queued.
QueueOf(t) == IF agents[t] = NoConn THEN <<>> ELSE agentConn[agents[t]].Send

\* C21: the goroutine runs the tool calls of a response one at a time in the
\* order of the response: the call it runs is the one after those that have a
\* result, the action it sends is that call's and goes to the tail of the
\* agent's queue, the queue is emptied from its head, and the next LLM call
\* (whose response carries the later tool calls) is made only when no call of
\* the earlier response is left.
C21_ToolCallsInOrder ==
    [][/\ (chat.pc = "tool" /\ ChatSteps) =>
                LET tc == chat.resp.ToolCalls[chat.k] IN
                /\ Len(chat.results) = chat.k - 1
                /\ \A n \in 1..(chat.k - 1) :
                        chat.results[n].ToolUseID = chat.resp.ToolCalls[n].ID
                /\ chat'.k = IF tc.Name = "take_screenshot" THEN chat.k ELSE chat.k + 1
                /\ \/ UNCHANGED agentConn
                   \/ /\ ActionOf(tc) # NoMsg
                      /\ agentConn' = [agentConn EXCEPT ![agents[chat.agentToken]].Send =
                                            Append(@, ActionOf(tc))]
                /\ chat'.resp = chat.resp
       /\ (ChatSteps /\ chat.pc \notin {"tool", "sync"}) => UNCHANGED agentConn
       /\ \A c \in AConns :
            (Len(agentConn'[c].Send) < Len(agentConn[c].Send) /\ ~agentConn'[c].closed) =>
                agentConn'[c].Send = Tail(agentConn[c].Send)
       /\ chat'.calls > chat.calls =>
                /\ chat.pc = "llm"
                /\ chat.k = 0
                /\ chat.results = <<>>
       /\ (chat'.pc = "llm" /\ chat.pc # "llm") =>
                /\ chat'.results = <<>>
                /\ chat'.k = 0
       /\ (chat.pc = "results" /\ ChatSteps) =>
                Len(chat.results) = Len(chat.resp.ToolCalls)
      ]_vars

\* Both clicks of the second response were delivered, in the order t1, t2.
C21_Witness ==
    /\ chat.pc = "results"
    /\ chat.i = 1
    /\ chat.results = <<ToolResult("t1", "text", FALSE), ToolResult("t2", "text", FALSE)>>
    /\ QueueOf(chat.agentToken) = <<Msg("click_xy", "t2")>>

\* The last call recorded is of op.
Called(op) == trace.call # <<>> /\ trace.call[1].op = op

\* Every message with a tool_use is directly followed by a message with a
\* tool_result, and every message with a tool_result directly preceded by a
\* message with a tool_use.
WellPaired(messages) ==
    \A n \in 1..Len(messages) :
        /\ HasToolUse(messages[n]) =>
                n < Len(messages) /\ HasToolResult(messages[n + 1])
        /\ HasToolResult(messages[n]) =>
                n > 1 /\ HasToolUse(messages[n - 1])
\* The same, the results being those of the calls of the message before.
MatchedPairs(messages) ==
    /\ WellPaired(messages)
    /\ \A n \in 1..Len(messages) :
            HasToolUse(messages[n]) =>
                BlockIDs(messages[n + 1], "tool_result") = BlockIDs(messages[n], "tool_use")

\* C22: in every list given to the LLM each message with a tool call is
\* directly followed by the message with the results of that call, and each
\* message with tool results directly preceded by the message with their call.
C22_CleanedListPaired ==
    Called("ValidateAndClean") =>
        /\ chat.messages = trace.call[1].after
        /\ MatchedPairs(chat.messages)

\* The last call of TrimToLastN cut the messages before index cut + 1.
TrimCut == Len(trace.call[1].before) - Len(trace.call[1].after)

C24_CleanIdempotent ==
    Called("ValidateAndClean") =>
        /\ ValidateAndClean(trace.call[1].after) = trace.call[1].after
        /\ WellPaired(trace.call[1].before) => trace.call[1].after = trace.call[1].before

\* A list with a call left without result and a result left without call was
\* cleaned to the pair and the text it also held.
C24_Witness ==
    /\ Called("ValidateAndClean")
    /\ trace.call[1].before = <<ToolResultMsg("t2"), ToolUseMsg("t1"), ToolUseMsg("t2"),
                                ToolResultMsg("t2")>>
    /\ chat.messages = <<ToolUseMsg("t2"), ToolResultMsg("t2")>>

\* The key names of the claim.
ClaimedKeyNames ==
    { <<"T", "a", "b">>,
      <<"E", "n", "t", "e", "r">>,
      <<"B", "a", "c", "k", "s", "p", "a", "c", "e">>,
      <<"E", "s", "c", "a", "p", "e">>,
      <<"D", "e", "l", "e", "t", "e">>,
      <<"A", "r", "r", "o", "w", "U", "p">>,
      <<"A", "r", "r", "o", "w", "D", "o", "w", "n">>,
      <<"A", "r", "r", "o", "w", "L", "e", "f", "t">>,
      <<"A", "r", "r", "o", "w", "R", "i", "g", "h", "t">> }
IsClaimedKeyName(text) == \E k \in ClaimedKeyNames : ToLower(text) = ToLower(k)

\* C25: a type_text whose text is, whatever its case, one of Tab, Enter,
\* Backspace, Escape, Delete, ArrowUp, ArrowDown, ArrowLeft, ArrowRight is sent
\* to the agent as a key action with that text, and any other text as an input
\* action with that text.
C25_KeyNamesBecomeKeys ==
    [][(/\ chat.pc = "tool"
        /\ ChatSteps
        /\ chat.resp.ToolCalls[chat.k].Name = "type_text"
        /\ SendToAgentOK(chat.agentToken)) =>
            LET text == chat.resp.ToolCalls[chat.k].Text IN
            agentConn' = [agentConn EXCEPT ![agents[chat.agentToken]].Send =
                            Append(@, IF IsClaimedKeyName(text)
                                      THEN Msg("key", text) ELSE Msg("input", text))]
      ]_vars

\* The (user id, agent token) pair of a loop, and the loops that hold a
\* conversation.
PairOf(l) == <<userConn[loops[l].uc].UserID, loops[l].agentToken>>
HoldsConv(l) == loops[l].pc \in {"run", "done"}
InSeq(q, x) == \E i \in 1..Len(q) : q[i] = x
HasMsg(q, msg) == \E i \in 1..Len(q) : q[i][1] = msg[1] /\ q[i][2] = msg[2]

\* C26: loops for distinct (user id, agent token) pairs hold distinct
\* conversations and no message added by one is in the conversation of the
\* other; a loop's actions are queued only on a connection of its own agent
\* token and its chat responses only on its own user connection.
C26_LoopsDoNotShare ==
    /\ \A l \in Loops, k \in Loops :
        (HoldsConv(l) /\ HoldsConv(k) /\ PairOf(l) # PairOf(k)) =>
            /\ loops[l].conv # loops[k].conv
            /\ ~InSeq(convs[loops[k].conv].Messages, l)
    /\ \A l \in Loops, c \in AConns :
        HasMsg(agentConn[c].Send, Msg("click_xy", l)) =>
            agentConn[c].Token = loops[l].agentToken
    /\ \A l \in Loops, h \in UConns :
        HasMsg(userConn[h].Send, ChatResponse("assistant", l, "", <<>>)) => h = loops[l].uc

\* Two loops of one user for two agents run at once, each having added its
\* message, and one has its action and the other its response queued.
C26_Witness ==
    /\ loops["l1"].pc = "run" /\ loops["l2"].pc = "run"
    /\ PairOf("l1")[1] = PairOf("l2")[1]
    /\ PairOf("l1")[2] # PairOf("l2")[2]
    /\ convs[loops["l1"].conv].Messages = <<"l1">>
    /\ convs[loops["l2"].conv].Messages = <<"l2">>
    /\ \E c \in AConns : HasMsg(agentConn[c].Send, Msg("click_xy", "l1"))
    /\ \E h \in UConns : HasMsg(userConn[h].Send, ChatResponse("assistant", "l2", "", <<>>))

\* A code without a row, a code whose row has reached its expiry, and the step
\* in which a pairing request is answered by ValidatePairingCode.
CodeUnknown(code) == code \notin Codes \/ pairingCodes[code] = NoToken
CodeExpired(code) ==
    code \in Codes /\ pairingCodes[code] # NoToken /\ codeExpires[code] <= now
AttemptStarts == pair.pc \in {"idle", "done"} /\ pair' # pair
InvalidCode == "Invalid or expired pairing code"

\* C27: a pairing request of a signed-in user whose code is unknown or expired
\* ends at once with the failure message, and the agents table, the pairing
\* codes, the hub's registrations and owners and every agent queue are as they
\* were.
C27_FailedPairingMutatesNothing ==
    [][(/\ AttemptStarts
        /\ pair'.userID # 0
        /\ CodeUnknown(pair'.Code) \/ CodeExpired(pair'.Code)) =>
            /\ pair'.pc = "done"
            /\ pair'.Message = InvalidCode
            /\ UNCHANGED <<dbAgents, pairingCodes, codeExpires, agents, agentConn>>
      ]_vars

\* A request with an expired code has failed; the row of the code is still
\* there, its agent is connected and has no owner in the table or in the hub.
C27_Witness ==
    /\ pair.pc = "done" /\ pair.Message = InvalidCode
    /\ CodeExpired(pair.Code)
    /\ LET t == pairingCodes[pair.Code] IN
       /\ dbAgents[t] = NoUser
       /\ agents[t] # NoConn
       /\ agentConn[agents[t]].UserID = NoUser
       /\ agentConn[agents[t]].Send = <<>>

\* The loop is about to send a chat_response on a user connection that has
\* been unregistered.
SendAfterUnregister == chat.pc = "send" /\ userConn[chat.uc].closed

\* C28: a chat_response that the loop sends after its user connection was
\* unregistered is dropped: no step taken then ends the process, and the
\* loop's step adds nothing to a queue and takes it past the send.
C28_LateSendsDropped ==
    [][SendAfterUnregister =>
          /\ panicked' = "no"
          /\ ChatSteps => (chat'.pc # "send" /\ userConn' = userConn)
      ]_vars

\* C29: no task is ever about to enqueue on an outbound queue that has been
\* closed, and the process never ends with a send on a closed queue.
C29_NoSendOnClosedQueue ==
    /\ panicked # "send on closed channel"
    /\ \A c \in AConns : agentPump[c].rd = "send" => ~agentConn[c].closed
    /\ \A h \in UConns : userPump[h].rd = "send" => ~userConn[h].closed

\* No goroutine is inside RequestScreenshotSync.
NoCallInProgress == \A s \in Syncs : sync[s].pc \in {"idle", "done"}
Pending == DOMAIN screenshotRequests

\* C30: the table of pending requests is empty whenever no call of
\* RequestScreenshotSync is in progress; a call that comes to send
\* request_screenshot has its entry in the table, and a call that returns
\* after having registered leaves no entry under its request id, whether it was
\* fulfilled, timed out or found the agent not connected.
C30_PendingTableEmptyAtRest ==
    /\ [](NoCallInProgress => Pending = {})
    /\ [][\A s \in Syncs :
            /\ (sync[s].pc # "send" /\ sync'[s].pc = "send") =>
                    sync'[s].reqID \in DOMAIN screenshotRequests'
            /\ (sync[s].pc = "cleanup" /\ sync'[s].pc = "done") =>
                    sync[s].reqID \notin DOMAIN screenshotRequests'
         ]_vars

\* A call has timed out without a cached screenshot and has returned, no other
\* call runs, and nothing is pending.
C30_Witness ==
    /\ NoCallInProgress
    /\ \E s \in Syncs : /\ sync[s].pc = "done"
                        /\ sync[s].err = "screenshot request timed out"
                        /\ sync[s].reqID # <<>>
    /\ Pending = {}

\* What the hub can do for others while call s waits: the agent's screenshot
\* (UpdateScreenshotCache), the registration of the next connection and the
\* unregistration of a live one, and the steps of another call, SendToAgent
\* among them.
OthersCanProceed(s) ==
    /\ \A c \in {1, 2} :
        /\ (agentPump[c].rd = "none" /\ \A d \in AConns : d < c => agentPump[d].rd # "none")
                => ENABLED HandleAgentWS(c, <<"a">>)
        /\ agentPump[c].rd = "read" =>
                (ENABLED AgentScreenshot(c, "P1")) /\ (ENABLED AgentReadError(c))
    /\ \A o \in Syncs \ {s} :
        /\ sync[o].pc = "register" => ENABLED SyncRegister(o)
        /\ sync[o].pc = "send" => ENABLED SyncSend(o)
        /\ sync[o].pc = "cleanup" => ENABLED SyncCleanup(o)

C32_DisconnectClosesOwnQueue ==
    /\ \A c \in {1, 2} :
        (agentPump[c].rd = "exit") ~>
            (/\ agentConn[c].Token # NoToken
             /\ agents[agentConn[c].Token] # c
             /\ agentConn[c].closed
             /\ agentPump[c].wr = "exit")
    /\ \A h \in {1, 2} :
        (userPump[h].rd = "exit") ~>
            (/\ userConn[h].UserID # NoUser
             /\ h \notin users[userConn[h].UserID]
             /\ userConn[h].closed
             /\ userPump[h].wr = "exit")

\* C33: in an iteration whose response carries tool calls the loop adds the
\* assistant message with the calls, then one message with one result per call
\* in the order of the calls and with their ids, then, when there is a
\* screenshot, one image message of the user role, and nothing else; the
\* screenshot after the results is asked for exactly when some call is not
\* take_screenshot.
IsToolUseOf(m, calls) ==
    /\ m.Role = "assistant"
    /\ Len(m.Content) = Len(calls)
    /\ \A n \in 1..Len(calls) :
        m.Content[n].Type = "tool_use" /\ m.Content[n].ID = calls[n].ID
IsToolResultOf(m, calls) ==
    /\ m.Role = "user"
    /\ Len(m.Content) = Len(calls)
    /\ \A n \in 1..Len(calls) :
        m.Content[n].Type = "tool_result" /\ m.Content[n].ToolUseID = calls[n].ID
IsUserImage(m) ==
    /\ m.Role = "user"
    /\ \E n \in 1..Len(m.Content) : m.Content[n].Type = "image" /\ m.Content[n].Data # ""
SomeCallNotScreenshot ==
    \E n \in 1..Len(chat.resp.ToolCalls) : chat.resp.ToolCalls[n].Name # "take_screenshot"
C34_OldCloseKeepsTokenOnline ==
    [][\A c1, c2 \in {1, 2} :
          (/\ c1 # c2
           /\ agentConn[c1].Token # NoToken
           /\ agentConn[c2].Token = agentConn[c1].Token
           /\ agents[agentConn[c1].Token] = c2
           /\ agentPump[c1].rd = "read"
           /\ agentPump'[c1].rd = "exit")
          => (/\ IsAgentOnline(agentConn[c1].Token)'
              /\ agents'[agentConn[c1].Token] = c2
              /\ ~agentConn'[c2].closed
              /\ SendToAgentOK(agentConn[c1].Token)' = CanEnqueue(agentConn[c2])')]_vars

\* C35: a screenshot of the agent "a" is never put in the response slot of a
\* request registered for the agent "a:b", and a call of RequestScreenshotSync
\* for "a:b" never has it as its result.
C35_NoCrossAgentScreenshot ==
    \A s \in Syncs :
        sync[s].token = <<"a", ":", "b">> =>
            /\ \A n \in 1..Len(respChan[s]) : respChan[s][n] # "P1"
            /\ sync[s].data # "P1"

\* C36: the cache entry of an agent, its timestamp with it, changes only in the
\* step in which a screenshot message of a connection of that agent is
\* handled, also while the loop of a chat message runs.
C36_CacheStampedByAgentOnly ==
    [][\A t \in Tokens :
          screenshotCache'[t] # screenshotCache[t] =>
              \E c \in AConns :
                  /\ agentConn[c].Token = t
                  /\ agentPump[c].rd = "read"
                  /\ agentPump'[c].rd = "bcast"
                  /\ screenshotCache'[t].Data = agentPump'[c].img]_vars

\* C37: a command of a user is put on the queue of an agent, and a message of
\* an agent on the queue of a connection of a user, only while the agents
\* table has the agent as owned by that user.
C37_RoutedOnlyToOwner ==
    /\ [][\A h \in UConns :
            (/\ userPump[h].rd = "forward"
             /\ userPump'[h].rd = "read"
             /\ agentConn' # agentConn)
            => dbAgents[userPump[h].tok] = userConn[h].UserID]_vars
    /\ [][\A h \in UConns :
            (/\ Len(userConn'[h].Send) = Len(userConn[h].Send) + 1
             /\ userConn'[h].Send[Len(userConn'[h].Send)][1] = "dom_update")
            => \E c \in AConns :
                /\ agentPump[c].rd = "read"
                /\ agentConn[c].Token # NoToken
                /\ dbAgents[agentConn[c].Token] = userConn[h].UserID]_vars

\* HandlePair has answered Success: true.
PairSucceeded == pair.pc = "done" /\ pair.Message = "ok"
\* The code validates again only when an agent is issued it anew.
UsedCodeStaysInvalid ==
    [][\A k \in Codes :
          (ValidatePairingCode(k) = NoToken /\ ValidatePairingCode(k)' # NoToken) =>
              \E c \in AConns : agentPump[c].rd = "read" /\ agentPump'[c].rd = "send"]_vars
\* The owner the hub holds for the agent's registered connection is the
\* pairing user from UpdateAgentUserID on, on the same connection.
HubOwnerIsPairingUser ==
    /\ [][(pair.pc = "update" /\ pair'.pc = "notify" /\ IsAgentOnline(pair.agentToken)) =>
            /\ agents' = agents
            /\ agentConn'[agents[pair.agentToken]].UserID = pair.userID]_vars
    /\ [](((pair.pc = "notify" \/ PairSucceeded) /\ IsAgentOnline(pair.agentToken)) =>
            agentConn[agents[pair.agentToken]].UserID = pair.userID)
\* DeletePairingCode leaves the code without a row.
CodeIsUsedUp ==
    [][(pair.pc = "delete" /\ pair'.pc = "update") =>
            ValidatePairingCode(pair.Code)' = NoToken]_vars
\* The screenshots of the paired agent are queued on the connections of the
\* pairing user that have room, once that user has selected the agent.
ScreenshotsReachPairingUser ==
    [][\A c \in AConns :
          (/\ PairSucceeded
           /\ agentConn[c].Token = pair.agentToken
           /\ agents[pair.agentToken] = c
           /\ userViewingAgent[pair.userID] = pair.agentToken
           /\ agentPump[c].rd = "bcast"
           /\ agentPump'[c].rd = "read")
          => \A h \in users[pair.userID] :
                CanEnqueue(userConn[h]) =>
                    userConn'[h].Send =
                        Append(userConn[h].Send, Msg("screenshot", agentPump[c].img))]_vars

\* C38 as stated: HandlePair succeeding for an agent that is online, the hub
\* holds the pairing user as the owner of the agent's connection, the paired
\* message is queued for the agent, the code validates no more, and the
\* screenshots of the agent reach the user once the user has selected it.
C38_PairedAlwaysEnqueued ==
    /\ HubOwnerIsPairingUser
    /\ CodeIsUsedUp
    /\ UsedCodeStaysInvalid
    /\ ScreenshotsReachPairingUser
    /\ [][(pair.pc = "notify" /\ pair'.pc = "done" /\ IsAgentOnline(pair.agentToken)) =>
            agentConn'[agents[pair.agentToken]].Send =
                Append(agentConn[agents[pair.agentToken]].Send,
                       Msg("paired", pair.userID))]_vars

\* C38, amended: the same, the paired message being queued when the queue of
\* the agent's connection has room and dropped when it is full.
C38_PairedEnqueuedIfRoom ==
    /\ HubOwnerIsPairingUser
    /\ CodeIsUsedUp
    /\ UsedCodeStaysInvalid
    /\ ScreenshotsReachPairingUser
    /\ [][(pair.pc = "notify" /\ pair'.pc = "done" /\ IsAgentOnline(pair.agentToken)) =>
            agentConn'[agents[pair.agentToken]].Send =
                IF CanEnqueue(agentConn[agents[pair.agentToken]])
                THEN Append(agentConn[agents[pair.agentToken]].Send,
                            Msg("paired", pair.userID))
                ELSE agentConn[agents[pair.agentToken]].Send]_vars
C38_Witness ==
    /\ PairSucceeded
    /\ agents[<<"a">>] = 1
    /\ agentConn[1].UserID = 1
    /\ HasMsg(agentConn[1].Send, Msg("paired", 1))
    /\ ValidatePairingCode(pair.Code) = NoToken
    /\ userViewingAgent[1] = <<"a">>
    /\ HasMsg(userConn[1].Send, Msg("screenshot", "P1"))

\* The key of the conversation of a loop, and the step in which GetOrCreate
\* returns to it.
KeyOf(l) == getConversationID(PairOf(l)[1], PairOf(l)[2])
GetOrCreateReturns(l) == loops[l].pc \in {"create", "lock"} /\ loops'[l].pc = "run"

\* C39: GetOrCreate returns the conversation the map holds under the key, the
\* one that was there when there was one, so that calls for one key with no
\* Delete between them return one object; with the key not there, as after
\* Delete, it returns a conversation that is new, held by no loop, and empty;
\* a loop adds its messages to the one conversation it holds, so none of
\* them is in a conversation made after the one it holds was deleted.
C39_OneConversationPerKey ==
    /\ [][\A l \in Loops :
            GetOrCreateReturns(l) =>
                /\ loops'[l].conv = mgr'[KeyOf(l)]
                /\ mgr[KeyOf(l)] # NoRef => loops'[l].conv = mgr[KeyOf(l)]
                /\ mgr[KeyOf(l)] = NoRef =>
                    /\ ~convs[loops'[l].conv].exists
                    /\ convs'[loops'[l].conv].Messages = <<>>
                    /\ \A k \in Loops : loops[k].conv # loops'[l].conv]_vars
    /\ [](\A l \in Loops, r \in Refs : InSeq(convs[r].Messages, l) => loops[l].conv = r)
    /\ [](\A id \in ConvKeys, jd \in ConvKeys :
            (mgr[id] # NoRef /\ mgr[id] = mgr[jd]) => id = jd)
C39_Witness ==
    /\ mgr[<<"1", ":", "a">>] = "o2"
    /\ loops["l1"].conv = "o1" /\ loops["l2"].conv = "o2"
    /\ KeyOf("l1") = KeyOf("l2")
    /\ convs["o1"].Messages = <<"l1">>
    /\ convs["o2"].Messages = <<"l2">>

\* after is what is left of before when its first messages are taken away.
IsSuffixOf(after, before) ==
    /\ Len(after) <= Len(before)
    /\ \A k \in 1..Len(after) : after[k] = before[Len(before) - Len(after) + k]
Min(a, b) == IF a <= b THEN a ELSE b

\* C40: for every conversation and every n >= 0, TrimToLastN(n) leaves the
\* messages from some position on to the last, in their order, at least
\* min(n, length) of them, and leaves the conversation as it is when n is at
\* least its length; in both revisions of the method.
C40_TrimLeavesSuffix ==
    Called("TrimToLastN") =>
        LET before == trace.call[1].before
            after == trace.call[1].after
            n == trace.call[1].n
            plain == TrimToLastN_Plain(before, n)
        IN  /\ IsSuffixOf(after, before)
            /\ Len(after) >= Min(n, Len(before))
            /\ n >= Len(before) => after = before
            /\ IsSuffixOf(plain, before)
            /\ Len(plain) >= Min(n, Len(before))
            /\ n >= Len(before) => plain = before

\* TrimToLastN(2) of a call, its result, a text and a second call kept the last
\* two messages.
C40_Witness ==
    /\ Called("TrimToLastN")
    /\ trace.call[1].n = 2
    /\ trace.call[1].before = <<ToolUseMsg("t1"), ToolResultMsg("t1"),
                                CreateTextMessage("assistant", "T"), ToolUseMsg("t2")>>
    /\ conv = <<CreateTextMessage("assistant", "T"), ToolUseMsg("t2")>>

====
